---- MODULE Spec2Model ----
(***************************************************************************)
(* Backup execution matrix of wussh/backup-tool.                           *)
(*                                                                         *)
(* The orchestrator (internal/usecase/backup_usecase.go: executeBackups,   *)
(* backupDatabase) walks the configured databases in order; for each one   *)
(* it calls one operation of the backup repository (BackupPostgres,        *)
(* BackupMySQL, BackupMariaDB, BackupMongoDB), then GetFileSize, and       *)
(* appends one BackupResult.  The repository spawns external processes     *)
(* (docker, kubectl, du); the outcome of each is chosen by the             *)
(* environment.  One action of the model is the code that runs up to and   *)
(* including one external call.                                            *)
(***************************************************************************)
EXTENDS Integers, Sequences, FiniteSets, TLC

VARIABLES
    config,      \* domain.BackupConfig handed to executeBackups
    idx,         \* position of the range loop of executeBackups (1-based)
    pc,          \* where the orchestrator stands
    result,      \* the BackupResult under construction in backupDatabase
    backupPath,  \* local variable backupPath of backupDatabase
    err,         \* local variable err of backupDatabase
    startTime,   \* local variable startTime of backupDatabase
    now,         \* the monotonic clock time.Now() reads
    results,     \* local variable results of executeBackups
    calls,       \* every OS call and external process issued so far, in order
    fs,          \* the local filesystem: what every existing path holds
    remote,      \* scratch directories that exist inside exec targets
    dumps,       \* what dumping each database prints on stdout
    session,     \* ExecuteInteractiveBackup: its position, the lines left on
                 \* stdin, what it printed, its locals and its return value
    script       \* backup-all-flexible.sh: its position, its environment, the
                 \* commands it ran, what it printed and its exit status

vars == <<config, idx, pc, result, backupPath, err, startTime, now, results,
          calls, fs, remote, dumps, session, script>>

----------------------------------------------------------------------------
(* Bounds of the model *)

MaxJobs == 2

\* the longest batch of the specification with fairness
MaxFairJobs == 1

\* the longest batch of the specification that runs the batch twice
MaxRerunJobs == 1

\* the longest batch of the specification in which a dump may print nothing
MaxOutputJobs == 1

\* the longest batch of the specification that configures the batch at the prompt
MaxConfiguredJobs == 1

\* the longest batch of the specification that runs under two namespaces
MaxNamespaceJobs == 1

\* the longest batch of the specification of the batches of declared types
MaxDeclaredJobs == 2

\* the most databases chosen at the prompt in the specification of the whole
\* interactive run
MaxInteractiveJobs == 1

\* the most comma-separated choices typed at the database prompt, and the most
\* invalid lines typed at the method prompt, in the specification of the prompts
MaxChoices == 2

MaxInvalidLines == 1

\* the most times one database type is chosen in the specification of the
\* batches of one type
MaxRepeats == 2

----------------------------------------------------------------------------
(* Domain: internal/domain/entity.go *)

DatabaseTypePostgres == "postgres"
DatabaseTypeMySQL == "mysql"
DatabaseTypeMariaDB == "mariadb"
DatabaseTypeMongoDB == "mongodb"

BackupMethodDockerRun == "docker-run"
BackupMethodDockerExec == "docker-exec"
BackupMethodKubectlExec == "kubectl-exec"

DatabaseTypeIsValid(dt) ==
    dt \in {DatabaseTypePostgres, DatabaseTypeMySQL, DatabaseTypeMariaDB,
            DatabaseTypeMongoDB}

BackupMethodIsValid(bm) ==
    bm \in {BackupMethodDockerRun, BackupMethodDockerExec, BackupMethodKubectlExec}

\* DatabaseType and BackupMethod are string types: a value outside the
\* declared constants can be stored in them.
AnyDatabaseTypes ==
    {DatabaseTypePostgres, DatabaseTypeMySQL, DatabaseTypeMariaDB,
     DatabaseTypeMongoDB, "oracle"}

AnyBackupMethods ==
    {BackupMethodDockerRun, BackupMethodDockerExec, BackupMethodKubectlExec, "ssh"}

DbNames == {"app", "shop"}
Hosts == {"db.internal"}
Users == {"admin"}
Passwords == {"s3cret"}
Versions == {"15"}
Containers == {"db-container"}
Pods == {"db-pod-0"}
Namespaces == {"production"}
\* config.Timestamp is a time.Time
Timestamps ==
    {[year |-> 2024, month |-> 1, day |-> 5, hour |-> 9, minute |-> 30, second |-> 0,
      nsec |-> 0]}
Cwd == "/work"

\* The databases a batch is made of: every type with the first name, and
\* postgres with the second name too.
DatabaseConfig ==
    {c \in [Type : AnyDatabaseTypes, Host : Hosts, User : Users, Password : Passwords,
            Database : DbNames, Version : Versions, Container : Containers, Pod : Pods] :
        c.Database = "shop" => c.Type = DatabaseTypePostgres}

\* The nil error.
Nil == "<nil>"

----------------------------------------------------------------------------
(* Paths.  A path is the sequence of its elements; <<>> is the empty       *)
(* string.  PathString renders it the way the code passes it to a command. *)

\* filepath.Join(dir, name), for a name without separators
Join(dir, name) == IF name = "" THEN dir ELSE Append(dir, name)

\* filepath.Base(path)
Base(path) == IF path = <<>> THEN "." ELSE path[Len(path)]

RECURSIVE PathString(_)
PathString(path) ==
    IF path = <<>> THEN ""
    ELSE IF Len(path) = 1 THEN path[1]
    ELSE PathString(SubSeq(path, 1, Len(path) - 1)) \o "/" \o path[Len(path)]

----------------------------------------------------------------------------
(* The batch *)

Batches ==
    UNION {[1..n -> DatabaseConfig] : n \in 0..MaxJobs}

BackupConfigs ==
    {[Method |-> m, Timestamp |-> ts, BackupDir |-> "backup",
      TempDir |-> "/tmp/db-backups", K8sNamespace |-> ns, Databases |-> dbs] :
        m \in AnyBackupMethods, ts \in Timestamps, ns \in Namespaces,
        dbs \in Batches}

\* The zero value of domain.BackupResult
ZeroResult ==
    [DatabaseType |-> "", Database |-> "", Success |-> FALSE, BackupPath |-> <<>>,
     Size |-> "", Error |-> Nil, Duration |-> 0]

\* what a dump process may print on stdout
DumpOutputs == {"", "-- dump"}

\* every database dumps to a non-empty text
FullDumps == [d \in DbNames |-> "-- dump"]

\* ExecuteInteractiveBackup at step 7, its prompts not looked at
AtExecute ==
    [pc |-> "execute", typed |-> <<>>, stdin |-> <<>>, input |-> <<>>, out |-> <<>>,
     invalid |-> 0, method |-> "",
     dbTypes |-> <<>>, k8sNamespace |-> "", dbConfigs |-> <<>>, ret |-> ""]

\* backup-all-flexible.sh is not run
NotRun ==
    [pc |-> "notrun", env |-> <<>>, method |-> "", attempted |-> <<>>, ran |-> <<>>,
     out |-> <<>>, status |-> 0]

\* executeBackups is entered: nothing has run yet
Start ==
    /\ session = AtExecute
    /\ script = NotRun
    /\ idx = 1
    /\ pc = "loop"
    /\ result = ZeroResult
    /\ backupPath = <<>>
    /\ err = Nil
    /\ startTime = 0
    /\ now = 0
    /\ results = <<>>
    /\ calls = <<>>
    /\ fs = [p \in {} |-> ""]
    /\ remote = {}

Init ==
    /\ config \in BackupConfigs
    /\ dumps = FullDumps
    /\ Start

----------------------------------------------------------------------------
(* executeBackups and backupDatabase: internal/usecase/backup_usecase.go *)

Digit(d) ==
    CASE d = 0 -> "0" [] d = 1 -> "1" [] d = 2 -> "2" [] d = 3 -> "3" [] d = 4 -> "4"
      [] d = 5 -> "5" [] d = 6 -> "6" [] d = 7 -> "7" [] d = 8 -> "8" [] d = 9 -> "9"

\* Mutant of Pad2: no leading zero.
Pad2Unpadded(n) == IF n < 10 THEN Digit(n) ELSE Digit((n \div 10) % 10) \o Digit(n % 10)

Pad2(n) == Digit((n \div 10) % 10) \o Digit(n % 10)

Pad4(n) == Pad2(n \div 100) \o Pad2(n % 100)

\* time.Time.Format("2006-01-02_15-04-05")
Format(t) ==
    Pad4(t.year) \o "-" \o Pad2(t.month) \o "-" \o Pad2(t.day) \o "_" \o
    Pad2(t.hour) \o "-" \o Pad2(t.minute) \o "-" \o Pad2(t.second)

\* local variable timestamp of executeBackups
timestamp == Format(config.Timestamp)

\* the element the range loop of executeBackups is at
dbConfig == config.Databases[idx]

\* local variable backupDir of backupDatabase
backupDir == Join(<<"backup">>, dbConfig.Type)

\* One entry of the call log.  kind is "os" for a call of package os, "repo"
\* for a call of the orchestrator into the backup repository, "exec" for an
\* external process; argv is the process's argument vector (for the other
\* kinds: the function and the path it is given).  ok and out are the
\* call's success and output; for a Backup* entry of kind "repo", logged when
\* the operation is entered, ok is TRUE and out is empty.
Call(kind, op, argv, ok, out) ==
    [job |-> idx, kind |-> kind, op |-> op, argv |-> argv, ok |-> ok, out |-> out]

\* What a path of the local filesystem holds: a directory, or a file and its
\* bytes; stamp and job name the batch (by its Timestamp) and the job that
\* wrote it last.
Entry(kind, data) ==
    [kind |-> kind, data |-> data, stamp |-> config.Timestamp, job |-> idx]

\* a path and the directories above it
Prefixes(path) == {SubSeq(path, 1, n) : n \in 1..Len(path)}

\* os.MkdirAll(path, 0755) succeeded: the missing directories are created, the
\* existing ones left alone
MkdirAll(f, path) ==
    [p \in DOMAIN f \cup Prefixes(path) |->
        IF p \in DOMAIN f THEN f[p] ELSE Entry("dir", "")]

\* path is created or replaced (os.WriteFile, docker cp, a mounted volume)
Put(f, path, e) ==
    [p \in DOMAIN f \cup {path} |-> IF p = path THEN e ELSE f[p]]

\* The clock counts calls: every call of package os and every external
\* process takes one unit of time (now' = now + 1 per call).

\* time.Since(start), read when the monotonic clock shows clock
Since(clock, start) == clock - start

\* Mutant of DirFailedResult: the function returns before Duration is stored.
DirFailedResultNoDuration(r, dur) ==
    [r EXCEPT !.Error = "failed to create backup directory"]

\* the result backupDatabase returns when os.MkdirAll(backupDir) failed
DirFailedResult(r, dur) ==
    [r EXCEPT !.Error = "failed to create backup directory", !.Duration = dur]

\* backupDatabase up to its first return: the result is initialised and the
\* per-type backup directory created.
BeginJob ==
    /\ pc = "loop"
    /\ idx <= Len(config.Databases)
    /\ \E ok \in BOOLEAN :
         LET r0 == [ZeroResult EXCEPT !.DatabaseType = dbConfig.Type,
                                      !.Database = dbConfig.Database]
         IN  /\ startTime' = now
             /\ now' = now + 1
             /\ calls' = Append(calls, Call("os", "mkdirall",
                                  <<"os.MkdirAll", PathString(backupDir)>>, ok, ""))
             /\ IF ok
                  THEN /\ fs' = MkdirAll(fs, backupDir)
                       /\ result' = r0
                       /\ pc' = "backup"
                  ELSE /\ fs' = fs
                       /\ result' = DirFailedResult(r0, Since(now + 1, now))
                       /\ pc' = "record"
    /\ backupPath' = <<>>
    /\ err' = Nil
    /\ UNCHANGED <<config, dumps, session, script, idx, results, remote>>

----------------------------------------------------------------------------
(* The backup repository: BackupRepositoryImpl (src/unnamed/part_000) *)

\* the remote shell command of the exec transports of BackupPostgres
PgDumpShell(c) ==
    "PGPASSWORD='" \o c.Password \o "' pg_dump -h localhost -U " \o c.User \o
    " " \o c.Database

\* the command BackupPostgres builds, <<>> for an unknown method
PostgresArgv(c, method, namespace) ==
    CASE method = BackupMethodDockerRun ->
           <<"docker", "run", "--rm", "-e", "PGPASSWORD=" \o c.Password,
             "-v", Cwd \o "/backup/postgres:/backup", "postgres:" \o c.Version,
             "pg_dump", "-h", c.Host, "-U", c.User, c.Database>>
      [] method = BackupMethodDockerExec ->
           <<"docker", "exec", c.Container, "sh", "-c", PgDumpShell(c)>>
      [] method = BackupMethodKubectlExec ->
           <<"kubectl", "exec", "-n", namespace, c.Pod, "--", "sh", "-c",
             PgDumpShell(c)>>
      [] OTHER -> <<>>

\* Mutant of MysqldumpShell: the exec transports dump the configured host.
MysqldumpShellConfigHost(c) ==
    "mysqldump -h " \o c.Host \o " -u" \o c.User \o " -p" \o c.Password \o " " \o
    c.Database

\* the remote shell command of the exec transports of BackupMySQL/BackupMariaDB
MysqldumpShell(c) ==
    "mysqldump -h localhost -u" \o c.User \o " -p" \o c.Password \o " " \o c.Database

\* the shell command of the docker-run transport of BackupMySQL/BackupMariaDB
MysqldumpHostShell(c) ==
    "mysqldump -h" \o c.Host \o " -u" \o c.User \o " -p" \o c.Password \o " " \o
    c.Database

\* the command BackupMySQL builds, <<>> for an unknown method
MySQLArgv(c, method, namespace) ==
    CASE method = BackupMethodDockerRun ->
           <<"docker", "run", "--rm", "-v", Cwd \o "/backup/mysql:/backup",
             "mysql:" \o c.Version, "sh", "-c", MysqldumpHostShell(c)>>
      [] method = BackupMethodDockerExec ->
           <<"docker", "exec", c.Container, "sh", "-c", MysqldumpShell(c)>>
      [] method = BackupMethodKubectlExec ->
           <<"kubectl", "exec", "-n", namespace, c.Pod, "--", "sh", "-c",
             MysqldumpShell(c)>>
      [] OTHER -> <<>>

\* the command BackupMariaDB builds, <<>> for an unknown method
MariaDBArgv(c, method, namespace) ==
    CASE method = BackupMethodDockerRun ->
           <<"docker", "run", "--rm", "-v", Cwd \o "/backup/mariadb:/backup",
             "mariadb:" \o c.Version, "sh", "-c", MysqldumpHostShell(c)>>
      [] method = BackupMethodDockerExec ->
           <<"docker", "exec", c.Container, "sh", "-c", MysqldumpShell(c)>>
      [] method = BackupMethodKubectlExec ->
           <<"kubectl", "exec", "-n", namespace, c.Pod, "--", "sh", "-c",
             MysqldumpShell(c)>>
      [] OTHER -> <<>>

\* the error a failed cmd.Output() is wrapped in
DumpError(method) ==
    CASE method = BackupMethodDockerRun -> "docker run failed"
      [] method = BackupMethodDockerExec -> "docker exec failed"
      [] method = BackupMethodKubectlExec -> "kubectl exec failed"

\* Mutant of DumpToFile: an empty dump is not written out.
DumpToFileSkipsEmpty(repoOp, argv, path) ==
    LET entry == Call("repo", repoOp, <<repoOp, PathString(path)>>, TRUE, "")
    IN  IF argv = <<>>
          THEN /\ calls' = Append(calls, entry)
               /\ err' = "unknown backup method"
               /\ UNCHANGED <<now, fs>>
          ELSE \E how \in {"exit", "write", "ok"} :
               LET out == IF how = "exit" THEN "" ELSE dumps[dbConfig.Database]
                   skip == how = "exit" \/ out = ""
               IN
                 /\ now' = now + (IF skip THEN 1 ELSE 2)
                 /\ calls' = calls \o <<entry, Call("exec", "dump", argv, how # "exit", out)>>
                        \o (IF skip THEN <<>>
                            ELSE <<Call("os", "writefile",
                                     <<"os.WriteFile", PathString(path)>>, how = "ok", out)>>)
                 /\ err' = CASE how = "exit" -> DumpError(config.Method)
                             [] how = "write" /\ ~skip -> "write failed"
                             [] OTHER -> Nil
                 /\ fs' = IF how = "ok" /\ ~skip
                            THEN Put(fs, path, Entry("file", out)) ELSE fs

\* The body shared by BackupPostgres, BackupMySQL and BackupMariaDB: switch on
\* the method; cmd.Output(); on success os.WriteFile(backupPath, output).
\* repoOp names the repository operation, path is its backupPath argument.
DumpToFile(repoOp, argv, path) ==
    LET entry == Call("repo", repoOp, <<repoOp, PathString(path)>>, TRUE, "")
    IN  IF argv = <<>>
          THEN /\ calls' = Append(calls, entry)
               /\ err' = "unknown backup method"
               /\ UNCHANGED <<now, fs>>
          ELSE \E how \in {"exit", "write", "ok"} :
               LET out == IF how = "exit" THEN "" ELSE dumps[dbConfig.Database]
               IN
                 /\ now' = now + (IF how = "exit" THEN 1 ELSE 2)
                 /\ calls' = calls \o <<entry, Call("exec", "dump", argv, how # "exit", out)>>
                        \o (IF how = "exit" THEN <<>>
                            ELSE <<Call("os", "writefile",
                                     <<"os.WriteFile", PathString(path)>>, how = "ok", out)>>)
                 /\ err' = CASE how = "exit" -> DumpError(config.Method)
                             [] how = "write" -> "write failed"
                             [] how = "ok" -> Nil
                 /\ fs' = IF how = "ok" THEN Put(fs, path, Entry("file", out)) ELSE fs

\* Mutant of SqlPath: the file name carries no timestamp.
SqlPathNoTimestamp == Join(backupDir, dbConfig.Database \o ".sql")

\* the destination of a file-producing backup (backupDatabase)
SqlPath == Join(backupDir, dbConfig.Database \o "_" \o timestamp \o ".sql")

\* case DatabaseTypePostgres of backupDatabase, and BackupPostgres
BackupPostgres ==
    /\ pc = "backup"
    /\ dbConfig.Type = DatabaseTypePostgres
    /\ backupPath' = SqlPath
    /\ DumpToFile("BackupPostgres",
                  PostgresArgv(dbConfig, config.Method, config.K8sNamespace), SqlPath)
    /\ pc' = "returned"
    /\ UNCHANGED <<config, dumps, session, script, idx, result, startTime, results, remote>>

\* case DatabaseTypeMySQL of backupDatabase, and BackupMySQL
BackupMySQL ==
    /\ pc = "backup"
    /\ dbConfig.Type = DatabaseTypeMySQL
    /\ backupPath' = SqlPath
    /\ DumpToFile("BackupMySQL",
                  MySQLArgv(dbConfig, config.Method, config.K8sNamespace), SqlPath)
    /\ pc' = "returned"
    /\ UNCHANGED <<config, dumps, session, script, idx, result, startTime, results, remote>>

\* case DatabaseTypeMariaDB of backupDatabase, and BackupMariaDB
BackupMariaDB ==
    /\ pc = "backup"
    /\ dbConfig.Type = DatabaseTypeMariaDB
    /\ backupPath' = SqlPath
    /\ DumpToFile("BackupMariaDB",
                  MariaDBArgv(dbConfig, config.Method, config.K8sNamespace), SqlPath)
    /\ pc' = "returned"
    /\ UNCHANGED <<config, dumps, session, script, idx, result, startTime, results, remote>>

\* the prefix that addresses the exec target: docker exec <container>, or
\* kubectl exec -n <namespace> <pod> --
ExecPrefix(c, method, namespace) ==
    IF method = BackupMethodDockerExec
      THEN <<"docker", "exec", c.Container>>
      ELSE <<"kubectl", "exec", "-n", namespace, c.Pod, "--">>

\* the scratch directory of the exec transports of BackupMongoDB:
\* fmt.Sprintf("%s/%s", tempDir, timestamp), timestamp := filepath.Base(backupPath)
ScratchDir(tempDir, path) == tempDir \o "/" \o Base(path)

\* docker-run transport of BackupMongoDB
MongoRunArgv(c, path) ==
    <<"docker", "run", "--rm", "-v", Cwd \o "/backup/mongodb:/backup",
      "mongo:" \o c.Version, "mongodump", "--host", c.Host, "--db", c.Database,
      "--out", "/backup/" \o Base(path)>>

\* exec transports of BackupMongoDB: create backup inside the target
MongoCreateArgv(c, method, namespace, tempDir, path) ==
    ExecPrefix(c, method, namespace) \o
    <<"mongodump", "--host", "localhost", "--db", c.Database,
      "--out", ScratchDir(tempDir, path)>>

\* Mutant of MongoCopyArgv: kubectl cp addresses the pod in the default
\* namespace.
MongoCopyArgvDefaultNamespace(c, method, namespace, tempDir, path) ==
    IF method = BackupMethodDockerExec
      THEN <<"docker", "cp",
             c.Container \o ":" \o ScratchDir(tempDir, path) \o "/" \o c.Database,
             PathString(path) \o "/">>
      ELSE <<"kubectl", "cp",
             "default/" \o c.Pod \o ":" \o ScratchDir(tempDir, path) \o "/" \o
               c.Database,
             PathString(path) \o "/">>

\* exec transports of BackupMongoDB: copy the backup to the host
MongoCopyArgv(c, method, namespace, tempDir, path) ==
    IF method = BackupMethodDockerExec
      THEN <<"docker", "cp",
             c.Container \o ":" \o ScratchDir(tempDir, path) \o "/" \o c.Database,
             PathString(path) \o "/">>
      ELSE <<"kubectl", "cp",
             namespace \o "/" \o c.Pod \o ":" \o ScratchDir(tempDir, path) \o "/" \o
               c.Database,
             PathString(path) \o "/">>

MongoCleanupArgvTempDir(c, method, namespace, tempDir, path) ==
    ExecPrefix(c, method, namespace) \o <<"rm", "-rf", tempDir>>

\* exec transports of BackupMongoDB: cleanup inside the target
MongoCleanupArgv(c, method, namespace, tempDir, path) ==
    ExecPrefix(c, method, namespace) \o <<"rm", "-rf", ScratchDir(tempDir, path)>>

\* the running container or pod an exec transport addresses
ExecTarget(c, method, namespace) ==
    IF method = BackupMethodDockerExec THEN c.Container
    ELSE namespace \o "/" \o c.Pod

\* the scratch directory of the current job, as an element of remote
Scratch(path) ==
    <<ExecTarget(dbConfig, config.Method, config.K8sNamespace),
      ScratchDir(config.TempDir, path)>>

\* the destination of a mongodb backup (backupDatabase)
MongoPath == Join(backupDir, timestamp)

\* the error a failed remote create is wrapped in
MongoCreateError(method) ==
    IF method = BackupMethodDockerExec THEN "failed to create backup in container"
    ELSE "failed to create backup in pod"

\* the error a failed copy is wrapped in
MongoCopyError(method) ==
    IF method = BackupMethodDockerExec THEN "failed to copy backup from container"
    ELSE "failed to copy backup from pod"

\* Mutant of CreateOutcome: the error of the remote create is dropped.
CreateOutcomeIgnoresFailure(ok, method) == [err |-> Nil, pc |-> "mongo_copy"]

\* if err := cmd.Run(); err != nil { return ... } after the remote create:
\* the error BackupMongoDB holds and where it goes next
CreateOutcome(ok, method) ==
    IF ok THEN [err |-> Nil, pc |-> "mongo_copy"]
    ELSE [err |-> MongoCreateError(method), pc |-> "returned"]

\* Mutant of CopyOutcome: a failed copy falls through to the cleanup.
CopyOutcomeFallsThrough(ok, method) == [err |-> Nil, pc |-> "mongo_cleanup"]

\* if err := cmd.Run(); err != nil { return ... } after the copy
CopyOutcome(ok, method) ==
    IF ok THEN [err |-> Nil, pc |-> "mongo_cleanup"]
    ELSE [err |-> MongoCopyError(method), pc |-> "returned"]

\* Mutant of CleanupOutcome: the error of the cleanup is returned.
CleanupOutcomeSurfaced(ok) == IF ok THEN Nil ELSE "failed to clean up"

\* cmd.Run() of the cleanup, its result dropped; return nil
CleanupOutcome(ok) == Nil

\* case DatabaseTypeMongoDB of backupDatabase, and BackupMongoDB up to the
\* return of its first cmd.Run(): the whole docker-run transport, the remote
\* create of the exec transports, or the unknown-method return.
BackupMongoDB ==
    /\ pc = "backup"
    /\ dbConfig.Type = DatabaseTypeMongoDB
    /\ backupPath' = MongoPath
    /\ LET entry == Call("repo", "BackupMongoDB",
                         <<"BackupMongoDB", PathString(MongoPath)>>, TRUE, "")
       IN  CASE config.Method = BackupMethodDockerRun ->
                  \E ok \in BOOLEAN :
                    /\ now' = now + 1
                    /\ calls' = calls \o
                         <<entry, Call("exec", "dump",
                                       MongoRunArgv(dbConfig, MongoPath), ok, "")>>
                    /\ err' = IF ok THEN Nil ELSE "exit status 1"
                    /\ fs' = IF ok
                               THEN Put(MkdirAll(fs, MongoPath),
                                        Join(MongoPath, dbConfig.Database),
                                        Entry("dir", ""))
                               ELSE fs
                    /\ pc' = "returned"
                    /\ UNCHANGED remote
             [] config.Method \in {BackupMethodDockerExec, BackupMethodKubectlExec} ->
                  \E ok \in BOOLEAN :
                    /\ now' = now + 1
                    /\ calls' = calls \o
                         <<entry, Call("exec", "create",
                                       MongoCreateArgv(dbConfig, config.Method,
                                           config.K8sNamespace, config.TempDir, MongoPath),
                                       ok, "")>>
                    /\ remote' = IF ok THEN remote \cup {Scratch(MongoPath)} ELSE remote
                    /\ err' = CreateOutcome(ok, config.Method).err
                    /\ pc' = CreateOutcome(ok, config.Method).pc
                    /\ fs' = fs
             [] OTHER ->
                  /\ calls' = Append(calls, entry)
                  /\ err' = "unknown backup method"
                  /\ pc' = "returned"
                  /\ UNCHANGED <<now, fs, remote>>
    /\ UNCHANGED <<config, dumps, session, script, idx, result, startTime, results>>

\* Mutant of CopyStep: the copy is issued before the local directory is made.
CopyStepCopyFirst(made, ok) ==
    <<Call("exec", "copy",
           MongoCopyArgv(dbConfig, config.Method, config.K8sNamespace,
                         config.TempDir, backupPath), ok, ""),
      Call("os", "mkdir", <<"os.MkdirAll", PathString(backupPath)>>, made, "")>>

\* the calls of the copy step, in the order the code issues them:
\* os.MkdirAll(backupPath, 0755), then docker cp / kubectl cp
CopyStep(made, ok) ==
    <<Call("os", "mkdir", <<"os.MkdirAll", PathString(backupPath)>>, made, ""),
      Call("exec", "copy",
           MongoCopyArgv(dbConfig, config.Method, config.K8sNamespace,
                         config.TempDir, backupPath), ok, "")>>

\* BackupMongoDB, exec transports: os.MkdirAll(backupPath) (its error is
\* dropped), then the copy from the target to the host.
BackupMongoDBCopy ==
    /\ pc = "mongo_copy"
    /\ \E made \in BOOLEAN, ok \in BOOLEAN :
         /\ now' = now + 2
         /\ calls' = calls \o CopyStep(made, ok)
         /\ fs' = LET dirs == IF made \/ ok THEN MkdirAll(fs, backupPath) ELSE fs
                  IN  IF ok
                      THEN Put(dirs, Join(backupPath, dbConfig.Database),
                               Entry("dir", ""))
                      ELSE dirs
         /\ err' = CopyOutcome(ok, config.Method).err
         /\ pc' = CopyOutcome(ok, config.Method).pc
    /\ UNCHANGED <<config, dumps, session, script, idx, result, backupPath, startTime, results, remote>>

\* BackupMongoDB, exec transports: rm -rf of the scratch directory (the
\* result of cmd.Run() is dropped), then return nil.
BackupMongoDBCleanup ==
    /\ pc = "mongo_cleanup"
    /\ \E ok \in BOOLEAN :
         /\ now' = now + 1
         /\ calls' = Append(calls,
              Call("exec", "cleanup",
                   MongoCleanupArgv(dbConfig, config.Method, config.K8sNamespace,
                                    config.TempDir, backupPath), ok, ""))
         /\ remote' = IF ok THEN remote \ {Scratch(backupPath)} ELSE remote
         /\ err' = CleanupOutcome(ok)
    /\ pc' = "returned"
    /\ UNCHANGED <<config, dumps, session, script, idx, result, backupPath, startTime, results, fs>>

\* unicode.IsSpace, for the characters the model prints
IsSpace(ch) == ch \in {" ", "\t", "\n"}

\* strings.Fields of a string given as the sequence of its characters:
\* cur is the field being read, acc the fields read so far
RECURSIVE FieldsFrom(_, _, _, _)
FieldsFrom(chars, i, cur, acc) ==
    IF i > Len(chars)
      THEN IF cur = "" THEN acc ELSE Append(acc, cur)
    ELSE IF IsSpace(chars[i])
      THEN FieldsFrom(chars, i + 1, "", IF cur = "" THEN acc ELSE Append(acc, cur))
    ELSE FieldsFrom(chars, i + 1, cur \o chars[i], acc)

Fields(chars) == FieldsFrom(chars, 1, "", <<>>)

RECURSIVE StringOf(_)
StringOf(chars) ==
    IF chars = <<>> THEN "" ELSE chars[1] \o StringOf(Tail(chars))

\* what du may print on stdout, as sequences of characters
DuOutputs == {<<>>, <<"8", "K", "\t", "b", "\n">>}

\* the command GetFileSize builds
DuArgv(path, isDirectory) ==
    <<"du", IF isDirectory THEN "-sh" ELSE "-h", PathString(path)>>

\* Mutant of GetFileSize: output without a token is an error.
GetFileSizeFailsOnNoToken(duOk, output) ==
    IF ~duOk THEN [size |-> "", err |-> "failed to get file size"]
    ELSE IF Len(Fields(output)) > 0 THEN [size |-> Fields(output)[1], err |-> Nil]
    ELSE [size |-> "", err |-> "failed to get file size"]

\* GetFileSize, given whether du exited with status 0 and what it printed
GetFileSize(duOk, output) ==
    IF ~duOk THEN [size |-> "", err |-> "failed to get file size"]
    ELSE IF Len(Fields(output)) > 0 THEN [size |-> Fields(output)[1], err |-> Nil]
    ELSE [size |-> "unknown", err |-> Nil]

----------------------------------------------------------------------------
(* backupDatabase after the switch on the database type *)

\* The switch of backupDatabase has no case for the type: nothing is
\* assigned, backupPath stays "" and err stays nil.
SwitchNoCase ==
    /\ pc = "backup"
    /\ ~DatabaseTypeIsValid(dbConfig.Type)
    /\ pc' = "returned"
    /\ UNCHANGED <<config, dumps, session, script, idx, result, backupPath, err, startTime, now, results,
                   calls, fs, remote>>

\* Mutant of FailedResult: the path is stored on the success path only.
FailedResultNoPath(r, path, dur, e) ==
    [r EXCEPT !.Duration = dur, !.Error = e]

\* the result backupDatabase returns when the backup operation failed with e
FailedResult(r, path, dur, e) ==
    [r EXCEPT !.Duration = dur, !.BackupPath = path, !.Error = e]

\* Mutant of SizedResult: a failed measurement leaves Error nil.
SizedResultKeepsNilError(r, path, dur, sz) ==
    IF sz.err # Nil
      THEN [r EXCEPT !.Duration = dur, !.BackupPath = path]
      ELSE [r EXCEPT !.Duration = dur, !.BackupPath = path,
                     !.Size = sz.size, !.Success = TRUE]

\* Mutant of SizedResult: BackupPath is stored on the failure path only.
SizedResultNoPath(r, path, dur, sz) ==
    IF sz.err # Nil
      THEN [r EXCEPT !.Duration = dur, !.BackupPath = path,
                     !.Error = "backup created but failed to get size"]
      ELSE [r EXCEPT !.Duration = dur, !.Size = sz.size, !.Success = TRUE]

\* the result backupDatabase returns when the backup operation succeeded and
\* GetFileSize returned sz
SizedResult(r, path, dur, sz) ==
    IF sz.err # Nil
      THEN [r EXCEPT !.Duration = dur, !.BackupPath = path,
                     !.Error = "backup created but failed to get size"]
      ELSE [r EXCEPT !.Duration = dur, !.BackupPath = path,
                     !.Size = sz.size, !.Success = TRUE]

\* isDirectory := dbConfig.Type == domain.DatabaseTypeMongoDB
IsDirectory(c) == c.Type = DatabaseTypeMongoDB

\* backupDatabase from the return of the backup operation to its own return:
\* duration and path are stored; on success of the operation GetFileSize is
\* called.
FinishJob ==
    /\ pc = "returned"
    /\ IF err # Nil
         THEN /\ result' = FailedResult(result, backupPath, Since(now, startTime), err)
              /\ UNCHANGED <<now, calls>>
         ELSE \E duOk \in BOOLEAN, output \in DuOutputs :
                /\ ~duOk => output = <<>>
                /\ now' = now + 1
                /\ calls' = calls \o
                     <<Call("repo", "GetFileSize",
                            <<"GetFileSize", PathString(backupPath)>>,
                            GetFileSize(duOk, output).err = Nil,
                            GetFileSize(duOk, output).size),
                       Call("exec", "du", DuArgv(backupPath, IsDirectory(dbConfig)),
                            duOk, StringOf(output))>>
                /\ result' = SizedResult(result, backupPath, Since(now, startTime),
                                         GetFileSize(duOk, output))
    /\ pc' = "record"
    /\ UNCHANGED <<config, dumps, session, script, idx, backupPath, err, startTime, results, fs, remote>>

\* Mutant of RecordResult: the result is put in front of the list.
RecordResultPrepend ==
    /\ pc = "record"
    /\ results' = <<result>> \o results
    /\ idx' = idx + 1
    /\ pc' = "loop"
    /\ UNCHANGED <<config, dumps, session, script, result, backupPath, err, startTime, now, calls, fs, remote>>

\* Mutant of RecordResult: the loop is left after a failed job.
RecordResultAbort ==
    /\ pc = "record"
    /\ results' = Append(results, result)
    /\ idx' = IF result.Error # Nil THEN Len(config.Databases) + 1 ELSE idx + 1
    /\ pc' = "loop"
    /\ UNCHANGED <<config, dumps, session, script, result, backupPath, err, startTime, now, calls, fs, remote>>

\* Mutant of RecordResult: a failed job is run once more before it is recorded.
RecordResultRetry ==
    /\ pc = "record"
    /\ IF /\ result.Error # Nil
          /\ Cardinality({k \in 1..Len(calls) :
                            calls[k].job = idx /\ calls[k].op = "mkdirall"}) < 2
         THEN UNCHANGED <<results, idx>>
         ELSE /\ results' = Append(results, result)
              /\ idx' = idx + 1
    /\ pc' = "loop"
    /\ UNCHANGED <<config, dumps, session, script, result, backupPath, err, startTime, now, calls, fs, remote>>

\* Mutant of RecordResult: the loop moves on at once and the results are
\* collected when the last job is over.
RecordResultDeferred ==
    /\ pc = "record"
    /\ results' = IF idx = Len(config.Databases) THEN Append(results, result)
                  ELSE results
    /\ idx' = idx + 1
    /\ pc' = "loop"
    /\ UNCHANGED <<config, dumps, session, script, result, backupPath, err, startTime, now, calls, fs, remote>>

\* executeBackups: results = append(results, result), and the loop moves on
RecordResult ==
    /\ pc = "record"
    /\ results' = Append(results, result)
    /\ idx' = idx + 1
    /\ pc' = "loop"
    /\ UNCHANGED <<config, dumps, session, script, result, backupPath, err, startTime, now, calls, fs, remote>>

\* executeBackups: the range loop is over, return results
ReturnResults ==
    /\ pc = "loop"
    /\ idx > Len(config.Databases)
    /\ pc' = "done"
    /\ UNCHANGED <<config, dumps, session, script, idx, result, backupPath, err, startTime, now, results,
                   calls, fs, remote>>

Next ==
    \/ BeginJob
    \/ BackupPostgres
    \/ BackupMySQL
    \/ BackupMariaDB
    \/ BackupMongoDB
    \/ BackupMongoDBCopy
    \/ BackupMongoDBCleanup
    \/ SwitchNoCase
    \/ FinishJob
    \/ RecordResult
    \/ ReturnResults

Spec == Init /\ [][Next]_vars

\* every call of package os and every cmd.Run()/cmd.Output() returns, and the
\* single goroutine keeps running: a step that can be taken is taken
\* the instants a second run of the batch may start at: half a second and a
\* second after the first
RerunTimestamps ==
    {[year |-> 2024, month |-> 1, day |-> 5, hour |-> 9, minute |-> 30, second |-> 0,
      nsec |-> 500000000],
     [year |-> 2024, month |-> 1, day |-> 5, hour |-> 9, minute |-> 30, second |-> 1,
      nsec |-> 0]}

\* ExecuteInteractiveBackup is run once more for the same method and
\* databases: Timestamp is time.Now() again, the working directory and the
\* exec targets are as the first run left them.
Rerun ==
    /\ pc = "done"
    /\ config.Timestamp \in Timestamps
    /\ \E ts \in RerunTimestamps : config' = [config EXCEPT !.Timestamp = ts]
    /\ idx' = 1
    /\ pc' = "loop"
    /\ result' = ZeroResult
    /\ backupPath' = <<>>
    /\ err' = Nil
    /\ startTime' = 0
    /\ now' = 0
    /\ results' = <<>>
    /\ calls' = <<>>
    /\ UNCHANGED <<fs, remote, dumps, session, script>>

InitRerun ==
    /\ config \in {c \in BackupConfigs : Len(c.Databases) <= MaxRerunJobs}
    /\ dumps = FullDumps
    /\ Start

NextRerun ==
    \/ Next
    \/ Rerun

SpecRerun == InitRerun /\ [][NextRerun]_vars

\* a dump may print nothing and still exit with status 0
InitOutputs ==
    /\ config \in {c \in BackupConfigs : Len(c.Databases) <= MaxOutputJobs}
    /\ dumps \in [DbNames -> DumpOutputs]
    /\ Start

SpecOutputs == InitOutputs /\ [][Next]_vars

----------------------------------------------------------------------------
(* The configuration at the prompt: internal/delivery/cli/config_service.go *)

\* strings.TrimSpace of a string given as the sequence of its characters
RECURSIVE TrimSpace(_)
TrimSpace(chars) ==
    IF chars = <<>> THEN chars
    ELSE IF IsSpace(Head(chars)) THEN TrimSpace(Tail(chars))
    ELSE IF IsSpace(chars[Len(chars)]) THEN TrimSpace(SubSeq(chars, 1, Len(chars) - 1))
    ELSE chars

\* Mutant of promptInput: an empty answer is taken as it is.
promptInputNoDefault(line, defaultValue) == StringOf(TrimSpace(line))

\* promptInput, given the line read from the terminal
promptInput(line, defaultValue) ==
    LET input == StringOf(TrimSpace(line))
    IN  IF input = "" THEN defaultValue ELSE input

\* promptPassword, given the line read from the terminal
promptPassword(line) == StringOf(TrimSpace(line))

\* lines typed at the prompt: Enter alone, blanks, a padded name
BlankLines == {<<"\n">>, <<" ", "\t", "\n">>}

TargetLines == BlankLines \cup {<<" ", "d", "b", "-", "1", " ", "\n">>}

NamespaceLines == {<<"\n">>, <<"p", "r", "o", "d", "\n">>}

\* the answers to the prompts of one ConfigureDatabase call
Answers ==
    [Host : {<<"\n">>}, User : {<<"\n">>}, Database : {<<"a", "p", "p", "\n">>},
     Password : {<<"s", "3", "\n">>}, Version : {<<"\n">>}, Target : TargetLines]

\* ConfigureDatabase, given the answers typed at its prompts
ConfigureDatabase(dbType, method, a) ==
    LET zero == [Type |-> dbType, Host |-> "", User |-> "", Password |-> "",
                 Database |-> "", Version |-> "", Container |-> "", Pod |-> ""]
        target(c, container, pod) ==
            IF method = BackupMethodDockerExec
              THEN [c EXCEPT !.Container = promptInput(a.Target, container)]
            ELSE IF method = BackupMethodKubectlExec
              THEN [c EXCEPT !.Pod = promptInput(a.Target, pod)]
            ELSE c
    IN  CASE dbType = DatabaseTypePostgres ->
               target([zero EXCEPT !.Host = promptInput(a.Host, "postgres"),
                                   !.User = promptInput(a.User, "postgres"),
                                   !.Database = promptInput(a.Database, "mydb"),
                                   !.Password = promptPassword(a.Password),
                                   !.Version = promptInput(a.Version, "15")],
                      "test-postgres", "postgres-0")
          [] dbType = DatabaseTypeMySQL ->
               target([zero EXCEPT !.Host = promptInput(a.Host, "mysql"),
                                   !.User = promptInput(a.User, "root"),
                                   !.Database = promptInput(a.Database, "mydb"),
                                   !.Password = promptPassword(a.Password),
                                   !.Version = promptInput(a.Version, "8")],
                      "test-mysql", "mysql-0")
          [] dbType = DatabaseTypeMariaDB ->
               target([zero EXCEPT !.Host = promptInput(a.Host, "mariadb"),
                                   !.User = promptInput(a.User, "root"),
                                   !.Database = promptInput(a.Database, "mydb"),
                                   !.Password = promptPassword(a.Password),
                                   !.Version = promptInput(a.Version, "11")],
                      "test-mariadb", "mariadb-0")
          [] dbType = DatabaseTypeMongoDB ->
               target([zero EXCEPT !.Host = promptInput(a.Host, "mongodb"),
                                   !.Database = promptInput(a.Database, "mydb"),
                                   !.Version = promptInput(a.Version, "7")],
                      "test-mongodb", "mongodb-0")
          [] OTHER -> zero

\* the methods SelectBackupMethod returns and the types SelectDatabases returns
SelectableMethods ==
    {BackupMethodDockerRun, BackupMethodDockerExec, BackupMethodKubectlExec}

SelectableTypes ==
    {DatabaseTypePostgres, DatabaseTypeMySQL, DatabaseTypeMariaDB, DatabaseTypeMongoDB}

\* GetKubernetesNamespace is asked under kubectl-exec only
K8sNamespaceOf(method, line) ==
    IF method = BackupMethodKubectlExec THEN promptInput(line, "default") ELSE "default"

\* the backupConfig ExecuteInteractiveBackup builds (steps 1 to 5)
ConfiguredConfigs ==
    UNION {
      {[Method |-> m, Timestamp |-> ts, BackupDir |-> "backup",
        TempDir |-> "/tmp/db-backups", K8sNamespace |-> K8sNamespaceOf(m, nl),
        Databases |-> [i \in 1..n |-> ConfigureDatabase(types[i], m, as[i])]] :
          m \in SelectableMethods, ts \in Timestamps, nl \in NamespaceLines,
          types \in [1..n -> SelectableTypes], as \in [1..n -> Answers]} :
      n \in 1..MaxConfiguredJobs}

InitConfigured ==
    /\ config \in ConfiguredConfigs
    /\ dumps = FullDumps
    /\ Start

\* the types are the four of SelectDatabases: the switch of backupDatabase
\* always finds its case
NextConfigured ==
    \/ BeginJob
    \/ BackupPostgres
    \/ BackupMySQL
    \/ BackupMariaDB
    \/ BackupMongoDB
    \/ BackupMongoDBCopy
    \/ BackupMongoDBCleanup
    \/ FinishJob
    \/ RecordResult
    \/ ReturnResults

SpecConfigured == InitConfigured /\ [][NextConfigured]_vars

\* executeBackups is entered with databases of the four declared types, under
\* any method
InitDeclared ==
    /\ config \in {c \in BackupConfigs :
                     /\ Len(c.Databases) <= MaxDeclaredJobs
                     /\ \A i \in 1..Len(c.Databases) :
                          DatabaseTypeIsValid(c.Databases[i].Type)}
    /\ dumps = FullDumps
    /\ Start

SpecDeclared == InitDeclared /\ [][NextConfigured]_vars

----------------------------------------------------------------------------
(* The interactive run: ExecuteInteractiveBackup (backup_usecase.go) and the
   prompts of ConfigServiceImpl (config_service.go) *)

\* the characters of a text, and a line of input: the text and its newline
Chars(text) == [i \in 1..Len(text) |-> SubSeq(text, i, i)]

Line(text) == Chars(text) \o <<"\n">>

\* s.reader.ReadString('\n') on the lines left on stdin: at the end of input
\* it returns the empty string (and an error, which every caller drops)
ReadString(stdin) ==
    IF stdin = <<>> THEN [line |-> <<>>, rest |-> <<>>]
    ELSE [line |-> Head(stdin), rest |-> Tail(stdin)]

\* the i-th of the next ReadString calls, and stdin after n of them
NthLine(stdin, i) == IF i <= Len(stdin) THEN stdin[i] ELSE <<>>

AfterLines(stdin, n) == IF n >= Len(stdin) THEN <<>> ELSE SubSeq(stdin, n + 1, Len(stdin))

\* the switch of SelectBackupMethod on the trimmed input: "" for the default case
MethodOf(line) ==
    LET input == StringOf(TrimSpace(line))
    IN  CASE input = "1" -> BackupMethodDockerRun
          [] input = "2" -> BackupMethodDockerExec
          [] input = "3" -> BackupMethodKubectlExec
          [] OTHER -> ""

\* strings.Split(input, ","): cur is the piece being read, acc the pieces read
RECURSIVE SplitFrom(_, _, _, _)
SplitFrom(chars, i, cur, acc) ==
    IF i > Len(chars) THEN Append(acc, cur)
    ELSE IF chars[i] = "," THEN SplitFrom(chars, i + 1, <<>>, Append(acc, cur))
    ELSE SplitFrom(chars, i + 1, Append(cur, chars[i]), acc)

Split(chars) == SplitFrom(chars, 1, <<>>, <<>>)

\* the loop of SelectDatabases over the choices
RECURSIVE SelectedFrom(_, _, _)
SelectedFrom(choices, i, selected) ==
    IF i > Len(choices) THEN selected
    ELSE LET choice == StringOf(TrimSpace(choices[i]))
         IN  SelectedFrom(choices, i + 1,
               CASE choice = "1" -> Append(selected, DatabaseTypePostgres)
                 [] choice = "2" -> Append(selected, DatabaseTypeMySQL)
                 [] choice = "3" -> Append(selected, DatabaseTypeMariaDB)
                 [] choice = "4" -> Append(selected, DatabaseTypeMongoDB)
                 [] OTHER -> selected)

SelectDatabasesOfFiveAnywhere(line) ==
    LET input == TrimSpace(line)
        choices == Split(input)
        selected == SelectedFrom(choices, 1, <<>>)
    IN  IF \E i \in 1..Len(choices) : StringOf(TrimSpace(choices[i])) = "5"
          THEN [selected |-> <<DatabaseTypePostgres, DatabaseTypeMySQL,
                               DatabaseTypeMariaDB, DatabaseTypeMongoDB>>,
                err |-> Nil]
        ELSE IF Len(selected) = 0
          THEN [selected |-> <<>>, err |-> "no databases selected"]
        ELSE [selected |-> selected, err |-> Nil]

\* SelectDatabases, given the line read: the types selected and the error
SelectDatabasesOf(line) ==
    LET input == TrimSpace(line)
        selected == SelectedFrom(Split(input), 1, <<>>)
    IN  IF StringOf(input) = "5"
          THEN [selected |-> <<DatabaseTypePostgres, DatabaseTypeMySQL,
                               DatabaseTypeMariaDB, DatabaseTypeMongoDB>>,
                err |-> Nil]
        ELSE IF Len(selected) = 0
          THEN [selected |-> <<>>, err |-> "no databases selected"]
        ELSE [selected |-> selected, err |-> Nil]

\* strings.ToLower, on the letters of the answers
ToLower(chars) ==
    [i \in 1..Len(chars) |->
       CASE chars[i] = "Y" -> "y" [] chars[i] = "E" -> "e" [] chars[i] = "S" -> "s"
         [] chars[i] = "N" -> "n" [] chars[i] = "O" -> "o" [] OTHER -> chars[i]]

ConfirmBackupOfNotNo(line) == StringOf(ToLower(TrimSpace(line))) # "n"

\* ConfirmBackup, given the line read
ConfirmBackupOf(line) == StringOf(ToLower(TrimSpace(line))) \in {"y", "yes"}

\* the number of lines ConfigureDatabase reads, and its answers among the
\* next lines of stdin
PromptsOf(dbType, method) ==
    (IF dbType = DatabaseTypeMongoDB THEN 3 ELSE 5) +
    (IF method \in {BackupMethodDockerExec, BackupMethodKubectlExec} THEN 1 ELSE 0)

AnswersFrom(dbType, stdin) ==
    IF dbType = DatabaseTypeMongoDB
      THEN [Host |-> NthLine(stdin, 1), User |-> <<>>, Database |-> NthLine(stdin, 2),
            Password |-> <<>>, Version |-> NthLine(stdin, 3),
            Target |-> NthLine(stdin, 4)]
      ELSE [Host |-> NthLine(stdin, 1), User |-> NthLine(stdin, 2),
            Database |-> NthLine(stdin, 3), Password |-> NthLine(stdin, 4),
            Version |-> NthLine(stdin, 5), Target |-> NthLine(stdin, 6)]

\* the variables of executeBackups, and the script that is not run
batch == <<config, idx, pc, result, backupPath, err, startTime, now, results,
           calls, fs, remote, dumps, script>>

\* the "Invalid choice" messages are counted modulo this number
InvalidWrap == 2

\* PrintHeader, and SelectBackupMethod up to its loop: the menu is printed
PrintHeader ==
    /\ session.pc = "start"
    /\ session' = [session EXCEPT
                     !.out = <<"Interactive Database Backup Tool",
                               "Select backup method:">>,
                     !.pc = "method"]
    /\ UNCHANGED batch

\* one turn of the loop of SelectBackupMethod
SelectBackupMethod ==
    /\ session.pc = "method"
    /\ LET r == ReadString(session.stdin)
           m == MethodOf(r.line)
       IN  session' =
             IF m # ""
               THEN [session EXCEPT !.stdin = r.rest, !.input = r.line, !.method = m,
                                    !.pc = "databases"]
               ELSE [session EXCEPT !.stdin = r.rest, !.input = r.line,
                                    !.invalid = (@ + 1) % InvalidWrap]
    /\ UNCHANGED batch

\* step 2 of ExecuteInteractiveBackup: SelectDatabases
SelectDatabases ==
    /\ session.pc = "databases"
    /\ LET r == ReadString(session.stdin)
           sel == SelectDatabasesOf(r.line)
           printed == Append(session.out, "Select databases to backup:")
       IN  session' =
             IF sel.err # Nil
               THEN [session EXCEPT !.stdin = r.rest, !.input = r.line, !.out = printed,
                                    !.ret = "failed to select databases: " \o sel.err,
                                    !.pc = "returned"]
               ELSE [session EXCEPT !.stdin = r.rest, !.input = r.line, !.out = printed,
                                    !.dbTypes = sel.selected,
                                    !.k8sNamespace = "default",
                                    !.pc = IF session.method = BackupMethodKubectlExec
                                             THEN "namespace" ELSE "configure"]
    /\ UNCHANGED batch

\* step 3 of ExecuteInteractiveBackup: GetKubernetesNamespace
GetKubernetesNamespace ==
    /\ session.pc = "namespace"
    /\ LET r == ReadString(session.stdin)
       IN  session' = [session EXCEPT
                         !.stdin = r.rest, !.input = r.line,
                         !.out = Append(@, "Kubernetes Namespace"),
                         !.k8sNamespace = promptInput(r.line, "default"),
                         !.pc = "configure"]
    /\ UNCHANGED batch

\* step 4 of ExecuteInteractiveBackup: one turn of the loop over dbTypes
ConfigureEach ==
    /\ session.pc = "configure"
    /\ Len(session.dbConfigs) < Len(session.dbTypes)
    /\ LET dbType == session.dbTypes[Len(session.dbConfigs) + 1]
       IN  session' = [session EXCEPT
                         !.stdin = AfterLines(@, PromptsOf(dbType, session.method)),
                         !.out = Append(@, "Configuring " \o dbType),
                         !.dbConfigs =
                            Append(@, ConfigureDatabase(dbType, session.method,
                                         AnswersFrom(dbType, session.stdin)))]
    /\ UNCHANGED batch

\* steps 5 to 7 of ExecuteInteractiveBackup: backupConfig is built and
\* printed, ConfirmBackup is asked; executeBackups is entered or the run ends
ConfirmBackup ==
    /\ session.pc = "configure"
    /\ Len(session.dbConfigs) = Len(session.dbTypes)
    /\ \E ts \in Timestamps :
         config' = [Method |-> session.method, Timestamp |-> ts,
                    BackupDir |-> "backup", TempDir |-> "/tmp/db-backups",
                    K8sNamespace |-> session.k8sNamespace,
                    Databases |-> session.dbConfigs]
    /\ LET r == ReadString(session.stdin)
           printed == session.out \o <<"Configuration Summary", "Proceed with backup?">>
       IN  IF ConfirmBackupOf(r.line)
             THEN /\ session' = [session EXCEPT !.stdin = r.rest, !.input = r.line,
                                                !.out = printed, !.pc = "execute"]
                  /\ pc' = "loop"
             ELSE /\ session' = [session EXCEPT
                                   !.stdin = r.rest, !.input = r.line,
                                   !.out = Append(printed, "Backup cancelled by user"),
                                   !.ret = Nil, !.pc = "returned"]
                  /\ pc' = pc
    /\ UNCHANGED <<idx, result, backupPath, err, startTime, now, results,
                   calls, fs, remote, dumps, script>>

\* step 8 of ExecuteInteractiveBackup: PrintSummary, return nil
PrintSummary ==
    /\ session.pc = "execute"
    /\ pc = "done"
    /\ session' = [session EXCEPT !.out = Append(@, "Backup Process Completed"),
                                  !.ret = Nil, !.pc = "returned"]
    /\ UNCHANGED batch

\* the zero value of domain.BackupConfig
ZeroConfig ==
    [Method |-> "", Timestamp |-> CHOOSE ts \in Timestamps : TRUE, BackupDir |-> "",
     TempDir |-> "", K8sNamespace |-> "", Databases |-> <<>>]

\* ExecuteInteractiveBackup is entered with the lines of stdin
StartInteractive(stdin) ==
    /\ session = [pc |-> "start", typed |-> stdin, stdin |-> stdin, input |-> <<>>,
                  out |-> <<>>,
                  invalid |-> 0,
                  method |-> "", dbTypes |-> <<>>, k8sNamespace |-> "",
                  dbConfigs |-> <<>>, ret |-> ""]
    /\ script = NotRun
    /\ config = ZeroConfig
    /\ dumps = [d \in DbNames \cup {"mydb", "production_db"} |-> "-- dump"]
    /\ idx = 1
    /\ pc = "notcalled"
    /\ result = ZeroResult
    /\ backupPath = <<>>
    /\ err = Nil
    /\ startTime = 0
    /\ now = 0
    /\ results = <<>>
    /\ calls = <<>>
    /\ fs = [p \in {} |-> ""]
    /\ remote = {}

\* all the sequences of at least lo and at most hi elements of set
SeqsOf(set, lo, hi) == UNION {[1..n -> set] : n \in lo..hi}

\* texts joined by commas
RECURSIVE JoinComma(_)
JoinComma(texts) ==
    IF Len(texts) = 0 THEN ""
    ELSE IF Len(texts) = 1 THEN texts[1]
    ELSE texts[1] \o "," \o JoinComma(Tail(texts))

\* the session the README shows: kubectl-exec, namespace production, postgres
ReadmeSession ==
    <<Line("3"), Line("production"), Line("1"), Line("prod-postgres"), Line("admin"),
      Line("production_db"), Line("********"), Line("15"),
      Line("postgres-primary-0"), Line("y")>>

\* the number of lines the loop over dbTypes reads
RECURSIVE PromptsOfAll(_, _)
PromptsOfAll(dbTypes, method) ==
    IF dbTypes = <<>> THEN 0
    ELSE PromptsOf(Head(dbTypes), method) + PromptsOfAll(Tail(dbTypes), method)

\* what is typed after the method m: up to MaxInteractiveJobs databases, one of
\* the namespace lines nss, Enter at every prompt of ConfigureDatabase, and an
\* answer to the confirmation, which may be missing (end of input)
StreamsOf(m, nss) ==
    {<<Line(m), Line(JoinComma(d))>> \o ns \o
       [i \in 1..PromptsOfAll(SelectDatabasesOf(Line(JoinComma(d))).selected,
                              MethodOf(Line(m))) |-> Line("")] \o yn :
         d \in SeqsOf({"1", "2", "3", "4"}, 1, MaxInteractiveJobs),
         ns \in nss,
         yn \in {<<>>, <<Line("y")>>, <<Line("n")>>, <<Line(" YES ")>>}}

\* what is typed in the runs of the whole program: the namespace is typed
\* under kubectl-exec only
InteractiveStreams ==
    {ReadmeSession} \cup StreamsOf("1", {<<>>}) \cup StreamsOf("2", {<<>>}) \cup
    StreamsOf("3", {<<Line("")>>, <<Line("staging")>>})

InitInteractive == \E stdin \in InteractiveStreams : StartInteractive(stdin)

NextInteractive ==
    \/ PrintHeader
    \/ SelectBackupMethod
    \/ SelectDatabases
    \/ GetKubernetesNamespace
    \/ ConfigureEach
    \/ ConfirmBackup
    \/ NextConfigured
    \/ PrintSummary

SpecInteractive == InitInteractive /\ [][NextInteractive]_vars

\* what is typed to back up n databases of the type of choice t under the
\* method of choice m: the choice n times, Enter at the namespace prompt, the
\* name of the first database (Enter for the default when name is ""), Enter at
\* every other prompt, and y
RepeatedStream(m, t, n, name) ==
    LET method == MethodOf(Line(m))
        dbType == SelectDatabasesOf(Line(t)).selected[1]
        prompts == PromptsOf(dbType, method)
        at == IF dbType = DatabaseTypeMongoDB THEN 2 ELSE 3
    IN  <<Line(m), Line(JoinComma([i \in 1..n |-> t]))>> \o
        (IF method = BackupMethodKubectlExec THEN <<Line("")>> ELSE <<>>) \o
        [i \in 1..(n * prompts) |-> IF i = at THEN Line(name) ELSE Line("")] \o
        <<Line("y")>>

RepeatedStreams ==
    {RepeatedStream(m, t, n, name) :
       m \in {"1", "2", "3"}, t \in {"1", "2", "3", "4"}, n \in 2..MaxRepeats,
       name \in {"", "app"}}

InitRepeated == \E stdin \in RepeatedStreams : StartInteractive(stdin)

SpecRepeated == InitRepeated /\ [][NextInteractive]_vars

\* what is typed in the runs of the prompts: up to MaxInvalidLines lines that
\* are no method, a method, up to MaxChoices choices separated by commas, a
\* namespace or nothing; and the input may end after any line
InvalidMethodLines == {Line("x")}

MethodLines == {Line("1"), Line(" 2 "), Line("3")}

ChoiceTokens == {"1", "2", "3", "4", "5", "x", " 4 ", ""}

ChoiceSeqs == SeqsOf(ChoiceTokens, 1, MaxChoices)

PromptStreams ==
    LET whole == {pre \o <<m, Line(JoinComma(d))>> \o tail :
                    pre \in SeqsOf(InvalidMethodLines, 0, MaxInvalidLines),
                    m \in MethodLines,
                    d \in ChoiceSeqs,
                    tail \in {<<>>, <<Line("staging")>>}}
    IN  UNION {{SubSeq(w, 1, n) : n \in 0..Len(w)} : w \in whole}

InitPrompts == \E stdin \in PromptStreams : StartInteractive(stdin)

\* ExecuteInteractiveBackup up to the confirmation
NextPrompts ==
    \/ PrintHeader
    \/ SelectBackupMethod
    \/ SelectDatabases
    \/ GetKubernetesNamespace
    \/ ConfigureEach
    \/ ConfirmBackup

\* the program is one thread that runs whenever it can take a step
SpecPrompts == InitPrompts /\ [][NextPrompts]_vars /\ WF_vars(NextPrompts)

----------------------------------------------------------------------------
(* scripts/backup-all-flexible.sh (src/unnamed/part_000, from line 344) *)

\* what .env sets: whether the file exists, BACKUP_METHOD ("" when unset),
\* for every database whether its host and its database name are set, and the
\* databases whose container and pod names are unset
ScriptEnvs ==
    {[dotenv |-> TRUE, BACKUP_METHOD |-> m, settings |-> st, untargeted |-> u] :
       m \in {"", BackupMethodDockerExec, BackupMethodKubectlExec, "podman"},
       st \in [SelectableTypes -> {"set", "nohost", "nodb"}],
       u \in {{}} \cup {{t} : t \in SelectableTypes}}
    \cup
    {[dotenv |-> FALSE, BACKUP_METHOD |-> "",
      settings |-> [t \in SelectableTypes |-> "set"], untargeted |-> {}]}

\* set -e: a simple command that fails, a function that returns non-zero
\* included, ends the script with that status
ErrExit(s, status) == [s EXCEPT !.pc = "exited", !.status = status]

\* the script up to Run Backups: .env is loaded, the method defaults to
\* docker-run, the backup directories are made
Prologue ==
    /\ script.pc = "start"
    /\ IF ~script.env.dotenv
         THEN script' = [script EXCEPT !.out = Append(@, "Error: .env file not found!"),
                                       !.pc = "exited", !.status = 1]
         ELSE \E ok \in BOOLEAN :
                LET loaded == [script EXCEPT
                                 !.method = IF script.env.BACKUP_METHOD = ""
                                              THEN BackupMethodDockerRun
                                              ELSE script.env.BACKUP_METHOD,
                                 !.ran = Append(@, <<"mkdir -p">>)]
                IN  script' = IF ok THEN [loaded EXCEPT !.pc = DatabaseTypePostgres]
                              ELSE ErrExit(loaded, 1)
    /\ UNCHANGED <<config, idx, pc, result, backupPath, err, startTime, now, results,
                   calls, fs, remote, dumps, session>>

\* the commands of a backup function for type t that run when the one named
\* failAt fails ("" when none fails)
CommandsUpTo(t, method, failAt) ==
    LET all == IF t = DatabaseTypeMongoDB /\ method # BackupMethodDockerRun
                 THEN <<"create", "mkdir", "copy", "cleanup">>
                 ELSE <<"dump">>
        last == IF failAt = "" THEN Len(all)
                ELSE CHOOSE i \in 1..Len(all) : all[i] = failAt
    IN  [i \in 1..last |-> <<t, all[i]>>]

\* the commands of a backup function for type t that may fail
CommandsOf(t, method) ==
    IF t = DatabaseTypeMongoDB /\ method # BackupMethodDockerRun
      THEN {"create", "mkdir", "copy", "cleanup"}
      ELSE {"dump"}

\* the body of backup_postgres, backup_mysql, backup_mariadb and
\* backup_mongodb for type t, after which the script goes on at next
BackupFunction(t, next) ==
    /\ IF script.env.settings[t] # "set"
         THEN script' = [script EXCEPT !.out = Append(@, t \o ": Skipped (no configuration)"),
                                       !.pc = next]
         ELSE LET started == [script EXCEPT !.attempted = Append(@, t),
                                            !.out = Append(@, t \o ": Starting backup...")]
              IN  IF started.method \notin SelectableMethods
                    THEN script' = ErrExit([started EXCEPT
                                              !.out = Append(@, "Unknown backup method")], 1)
                  ELSE IF /\ started.method # BackupMethodDockerRun
                          /\ t \in script.env.untargeted
                    THEN script' = ErrExit([started EXCEPT
                                              !.out = Append(@, t \o ": target not set in .env")],
                                           1)
                  ELSE \E failAt \in CommandsOf(t, started.method) \cup {""},
                          artifact \in BOOLEAN :
                         LET run == [started EXCEPT
                                       !.ran = @ \o CommandsUpTo(t, started.method, failAt)]
                         IN  script' =
                               IF failAt # "" THEN ErrExit(run, 1)
                               ELSE [run EXCEPT
                                       !.out = Append(@, IF artifact
                                                           THEN t \o ": backup completed"
                                                           ELSE t \o ": backup failed or empty"),
                                       !.pc = next]
    /\ UNCHANGED <<config, idx, pc, result, backupPath, err, startTime, now, results,
                   calls, fs, remote, dumps, session>>

backup_postgres ==
    /\ script.pc = DatabaseTypePostgres
    /\ BackupFunction(DatabaseTypePostgres, DatabaseTypeMySQL)

backup_mysql ==
    /\ script.pc = DatabaseTypeMySQL
    /\ BackupFunction(DatabaseTypeMySQL, DatabaseTypeMariaDB)

backup_mariadb ==
    /\ script.pc = DatabaseTypeMariaDB
    /\ BackupFunction(DatabaseTypeMariaDB, DatabaseTypeMongoDB)

backup_mongodb ==
    /\ script.pc = DatabaseTypeMongoDB
    /\ BackupFunction(DatabaseTypeMongoDB, "summary")

\* the summary the script ends with
Summary ==
    /\ script.pc = "summary"
    /\ script' = [script EXCEPT !.out = Append(@, "Backup process completed!"),
                                !.pc = "done", !.status = 0]
    /\ UNCHANGED <<config, idx, pc, result, backupPath, err, startTime, now, results,
                   calls, fs, remote, dumps, session>>

InitScript ==
    /\ script \in {[pc |-> "start", env |-> e, method |-> "", attempted |-> <<>>,
                     ran |-> <<>>, out |-> <<>>, status |-> 0] : e \in ScriptEnvs}
    /\ session = AtExecute
    /\ config = ZeroConfig
    /\ dumps = FullDumps
    /\ idx = 1
    /\ pc = "notcalled"
    /\ result = ZeroResult
    /\ backupPath = <<>>
    /\ err = Nil
    /\ startTime = 0
    /\ now = 0
    /\ results = <<>>
    /\ calls = <<>>
    /\ fs = [p \in {} |-> ""]
    /\ remote = {}

NextScript ==
    \/ Prologue
    \/ backup_postgres
    \/ backup_mysql
    \/ backup_mariadb
    \/ backup_mongodb
    \/ Summary

SpecScript == InitScript /\ [][NextScript]_vars

\* the namespaces a batch may be run under
TwoNamespaces == {"default", "staging"}

\* executeBackups is entered with either namespace, whatever the method
InitNamespaces ==
    /\ config \in {[c EXCEPT !.K8sNamespace = ns] :
                     c \in {b \in BackupConfigs : Len(b.Databases) <= MaxNamespaceJobs},
                     ns \in TwoNamespaces}
    /\ dumps = FullDumps
    /\ Start

SpecNamespaces == InitNamespaces /\ [][Next]_vars

InitFair ==
    /\ config \in {c \in BackupConfigs : Len(c.Databases) <= MaxFairJobs}
    /\ dumps = FullDumps
    /\ Start

SpecFair == InitFair /\ [][Next]_vars /\ WF_vars(Next)

----------------------------------------------------------------------------
(* Vocabulary of the properties *)

jobs == config.Databases

\* job j has a recorded result
Recorded(j) == j \in 1..Len(results)

\* a call op has been issued for job j / has been issued and succeeded
Issued(j, op) == \E k \in 1..Len(calls) : calls[k].job = j /\ calls[k].op = op

IssuedOk(j, op) ==
    \E k \in 1..Len(calls) : calls[k].job = j /\ calls[k].op = op /\ calls[k].ok

IssuedFailed(j, op) ==
    \E k \in 1..Len(calls) : calls[k].job = j /\ calls[k].op = op /\ ~calls[k].ok

\* the operations among ops issued for job j, in the order of their issue
OpsOf(j, ops) ==
    LET sel == SelectSeq(calls, LAMBDA c : c.job = j /\ c.op \in ops)
    IN  [k \in 1..Len(sel) |-> sel[k].op]

\* an external process has been spawned for job j
Spawned(j) == \E k \in 1..Len(calls) : calls[k].job = j /\ calls[k].kind = "exec"

\* the repository operation of a database type
BackupOp(type) ==
    CASE type = DatabaseTypePostgres -> "BackupPostgres"
      [] type = DatabaseTypeMySQL -> "BackupMySQL"
      [] type = DatabaseTypeMariaDB -> "BackupMariaDB"
      [] type = DatabaseTypeMongoDB -> "BackupMongoDB"

\* the destination of the backup of database c
Destination(c) ==
    IF c.Type = DatabaseTypeMongoDB THEN <<"backup", "mongodb", timestamp>>
    ELSE <<"backup", c.Type, c.Database \o "_" \o timestamp \o ".sql">>

\* job j is a mongodb job under an exec transport
MongoExecJob(j) ==
    /\ jobs[j].Type = DatabaseTypeMongoDB
    /\ config.Method \in {BackupMethodDockerExec, BackupMethodKubectlExec}

\* the scratch directory of job j, as an element of remote
ScratchOf(j) ==
    <<ExecTarget(jobs[j], config.Method, config.K8sNamespace),
      ScratchDir(config.TempDir, Destination(jobs[j]))>>

\* the backup operation of job j ran to the end without a failing call
BackupSucceeded(j) ==
    IF jobs[j].Type = DatabaseTypeMongoDB
      THEN IF config.Method = BackupMethodDockerRun THEN IssuedOk(j, "dump")
           ELSE IssuedOk(j, "create") /\ IssuedOk(j, "copy") /\ Issued(j, "cleanup")
      ELSE IssuedOk(j, "dump") /\ IssuedOk(j, "writefile")

\* what GetFileSize returned for job j
SizeReturned(j) ==
    calls[CHOOSE k \in 1..Len(calls) :
            calls[k].job = j /\ calls[k].op = "GetFileSize"].out

----------------------------------------------------------------------------
(* Properties *)

\* C1: at every moment the results recorded so far are the results of the
\* first jobs of the batch, in configuration order (same DatabaseType and
\* database name at every position), and when executeBackups returns there is
\* exactly one result per configured database.
C1_ResultsFollowConfiguration ==
    /\ Len(results) <= Len(jobs)
    /\ \A i \in 1..Len(results) :
         /\ results[i].DatabaseType = jobs[i].Type
         /\ results[i].Database = jobs[i].Database
    /\ pc = "done" => Len(results) = Len(jobs)

\* C1 witness: a batch of two different databases has returned, the first
\* succeeded and the second failed.
C1_Witness ==
    /\ pc = "done"
    /\ Len(results) = 2
    /\ jobs[1].Type # jobs[2].Type
    /\ jobs[1].Database # jobs[2].Database
    /\ results[1].Success
    /\ ~results[2].Success

\* C2: no failure stops the batch: when executeBackups returns, backupDatabase
\* has run for every configured job (its directory preparation was issued), and
\* every job of a known type whose directory was prepared had its backup
\* operation called, whatever happened to the jobs before it.
C2_NoBatchAbort ==
    pc = "done" =>
      \A j \in 1..Len(jobs) :
        /\ Issued(j, "mkdirall")
        /\ Recorded(j)
        /\ (IssuedOk(j, "mkdirall") /\ DatabaseTypeIsValid(jobs[j].Type))
              => Issued(j, BackupOp(jobs[j].Type))

\* C2 witness: the first job failed and the backup operation of the second
\* job was still called.
C2_Witness ==
    /\ pc = "done"
    /\ Len(jobs) = 2
    /\ results[1].Error # Nil
    /\ DatabaseTypeIsValid(jobs[2].Type)
    /\ Issued(2, BackupOp(jobs[2].Type))

\* C3: for a mongodb job under docker-exec or kubectl-exec whose remote create
\* failed, neither the local directory creation, nor the copy, nor the cleanup
\* is ever issued, BackupMongoDB returns the create error, and the job is
\* recorded as failed with it.
C3_CreateFailureStopsProtocol ==
    \A j \in 1..Len(jobs) :
      (MongoExecJob(j) /\ IssuedFailed(j, "create")) =>
        /\ ~Issued(j, "mkdir")
        /\ ~Issued(j, "copy")
        /\ ~Issued(j, "cleanup")
        /\ (idx = j /\ pc = "returned") => err = MongoCreateError(config.Method)
        /\ Recorded(j) =>
             /\ ~results[j].Success
             /\ results[j].Error = MongoCreateError(config.Method)

\* C3 witness: a mongodb exec job whose remote create failed has been
\* recorded.
C3_Witness ==
    \E j \in 1..Len(results) : MongoExecJob(j) /\ IssuedFailed(j, "create")

\* C4: for a mongodb job under docker-exec or kubectl-exec whose remote create
\* succeeded and whose copy failed, the cleanup is never issued, the job is
\* recorded as failed with the copy error, and when the job ends its scratch
\* directory is still in the target.
C4_CopyFailureSkipsCleanup ==
    \A j \in 1..Len(jobs) :
      (MongoExecJob(j) /\ IssuedOk(j, "create") /\ IssuedFailed(j, "copy")) =>
        /\ ~Issued(j, "cleanup")
        /\ (idx = j /\ pc \in {"returned", "record"}) => ScratchOf(j) \in remote
        /\ (idx = j /\ pc = "returned") => err = MongoCopyError(config.Method)
        /\ Recorded(j) =>
             /\ ~results[j].Success
             /\ results[j].Error = MongoCopyError(config.Method)

\* C4 witness: a mongodb exec job whose copy failed has been recorded and its
\* scratch directory is in the target.
C4_Witness ==
    \E j \in 1..Len(results) :
      /\ MongoExecJob(j)
      /\ IssuedOk(j, "create")
      /\ IssuedFailed(j, "copy")
      /\ ScratchOf(j) \in remote

\* C5: for a mongodb job under docker-exec or kubectl-exec whose create and
\* copy succeeded, BackupMongoDB returns nil whether the cleanup succeeded or
\* failed, and the recorded success flag and failure detail are decided by the
\* size measurement alone.
C5_CleanupBestEffort ==
    \A j \in 1..Len(jobs) :
      (/\ MongoExecJob(j)
       /\ IssuedOk(j, "create")
       /\ IssuedOk(j, "copy")
       /\ Issued(j, "cleanup")) =>
        /\ (idx = j /\ pc = "returned") => err = Nil
        /\ Recorded(j) =>
             /\ results[j].Success = IssuedOk(j, "GetFileSize")
             /\ results[j].Error =
                  IF IssuedOk(j, "GetFileSize") THEN Nil
                  ELSE "backup created but failed to get size"

\* C5 witness: a job whose cleanup failed is recorded as a success, and a job
\* whose cleanup succeeded too.
C5_Witness ==
    /\ \E j \in 1..Len(results) :
         MongoExecJob(j) /\ IssuedFailed(j, "cleanup") /\ results[j].Success
    /\ \E j \in 1..Len(results) :
         MongoExecJob(j) /\ IssuedOk(j, "cleanup") /\ results[j].Success

\* C6: for a mongodb job under docker-exec or kubectl-exec in which every step
\* succeeded, the steps were issued exactly once each, in the order remote
\* create, local directory creation, copy, remote cleanup.
C6_ProtocolOrder ==
    \A j \in 1..Len(jobs) :
      (/\ MongoExecJob(j)
       /\ IssuedOk(j, "cleanup")
       /\ ~IssuedFailed(j, "create")
       /\ ~IssuedFailed(j, "mkdir")
       /\ ~IssuedFailed(j, "copy")) =>
        OpsOf(j, {"create", "mkdir", "copy", "cleanup"}) =
          <<"create", "mkdir", "copy", "cleanup">>

\* C6 witness: a mongodb exec job in which all four steps succeeded has been
\* recorded.
C6_Witness ==
    \E j \in 1..Len(results) :
      /\ MongoExecJob(j)
      /\ IssuedOk(j, "create")
      /\ IssuedOk(j, "mkdir")
      /\ IssuedOk(j, "copy")
      /\ IssuedOk(j, "cleanup")

\* C7 (as claimed): a job whose database type or method is not one of the
\* declared constants, and whose backup directory was prepared, is recorded as
\* failed with an error naming the unknown type or method, and no external
\* process (du included) was spawned for it.
C7_UnknownPairSpawnsNothing ==
    \A j \in 1..Len(results) :
      (/\ IssuedOk(j, "mkdirall")
       /\ (~DatabaseTypeIsValid(jobs[j].Type) \/ ~BackupMethodIsValid(config.Method))) =>
        /\ ~results[j].Success
        /\ results[j].Error \in {"unknown backup method", "unknown database type"}
        /\ ~Spawned(j)

\* C8 (as claimed): a job of an unknown database type is recorded with
\* Success = FALSE, whatever GetFileSize returned.
C8_UnknownTypeFails ==
    \A j \in 1..Len(results) :
      ~DatabaseTypeIsValid(jobs[j].Type) => ~results[j].Success

\* C9: every BackupResult backupDatabase returns, and so every recorded one,
\* has a non-nil Error exactly when Success is false.
C9_ErrorIffNotSuccess ==
    /\ pc = "record" => ((result.Error # Nil) <=> ~result.Success)
    /\ \A i \in 1..Len(results) : (results[i].Error # Nil) <=> ~results[i].Success

\* C9 witness: a job whose size measurement failed has been recorded, and
\* backupDatabase is returning a success for the next one.
C9_Witness ==
    /\ \E i \in 1..Len(results) :
         results[i].Error = "backup created but failed to get size"
    /\ pc = "record"
    /\ result.Success

\* C10: for every database type and method, when the backup operation and the
\* size measurement both succeeded, the recorded result has Success = TRUE,
\* the non-empty Size GetFileSize returned, BackupPath equal to the job's
\* destination, no Error, and Duration >= 0.
C10_SuccessfulOutcome ==
    \A j \in 1..Len(results) :
      (/\ DatabaseTypeIsValid(jobs[j].Type)
       /\ BackupSucceeded(j)
       /\ IssuedOk(j, "GetFileSize")) =>
        /\ results[j].Success
        /\ results[j].Size = SizeReturned(j)
        /\ results[j].Size # ""
        /\ results[j].BackupPath = Destination(jobs[j])
        /\ results[j].Error = Nil
        /\ results[j].Duration >= 0

\* C10 witness: a batch of a file-producing and a mongodb job, both recorded
\* as successes.
C10_Witness ==
    /\ Len(results) = 2
    /\ jobs[1].Type = DatabaseTypeMongoDB
    /\ jobs[2].Type # DatabaseTypeMongoDB
    /\ results[1].Success
    /\ results[2].Success
    /\ DatabaseTypeIsValid(jobs[2].Type)

\* how the layout "2006-01-02_15-04-05" renders the instants batches start at
StampText(t) ==
    CASE <<t.year, t.month, t.day, t.hour, t.minute, t.second>> =
           <<2024, 1, 5, 9, 30, 0>> -> "2024-01-05_09-30-00"
      [] <<t.year, t.month, t.day, t.hour, t.minute, t.second>> =
           <<2024, 1, 5, 9, 30, 1>> -> "2024-01-05_09-30-01"

\* backup/{type}/{database}_{timestamp}.sql, or backup/mongodb/{timestamp}
DestinationText(c, t) ==
    IF c.Type = DatabaseTypeMongoDB
      THEN "backup/mongodb/" \o StampText(t)
      ELSE "backup/" \o c.Type \o "/" \o c.Database \o "_" \o StampText(t) \o ".sql"

C12_DirectoryFailure ==
    \A j \in 1..Len(jobs) :
      IssuedFailed(j, "mkdirall") =>
        /\ \A k \in 1..Len(calls) : calls[k].job = j => calls[k].op = "mkdirall"
        /\ Cardinality({k \in 1..Len(calls) : calls[k].job = j}) = 1
        /\ Recorded(j) =>
             /\ ~results[j].Success
             /\ results[j].Error = "failed to create backup directory"
             /\ results[j].Duration = 1
             /\ results[j].BackupPath = <<>>
             /\ results[j].Size = ""

\* C12 witness: the first job's directory could not be created, the job is
\* recorded, and the batch went on to run the second job's backup operation.
C12_Witness ==
    /\ Len(results) = 2
    /\ IssuedFailed(1, "mkdirall")
    /\ results[1].Duration = 1
    /\ Spawned(2)

\* C13: the size measurement is invoked only after the job's backup operation
\* returned without error, with isDirectory true exactly for mongodb; when the
\* measurement fails the result has Success = FALSE and the detail 'backup
\* created but failed to get size' although the artifact exists, BackupPath is
\* the destination and Size is empty.
C13_SizeAfterBackup ==
    \A j \in 1..Len(jobs) :
      Issued(j, "GetFileSize") =>
        /\ BackupSucceeded(j)
        /\ \A k \in 1..Len(calls) :
             (calls[k].job = j /\ calls[k].op = "du") =>
               calls[k].argv =
                 DuArgv(Destination(jobs[j]), jobs[j].Type = DatabaseTypeMongoDB)
        /\ (Recorded(j) /\ IssuedFailed(j, "GetFileSize")) =>
             /\ ~results[j].Success
             /\ results[j].Error = "backup created but failed to get size"
             /\ results[j].BackupPath = Destination(jobs[j])
             /\ results[j].Size = ""
             /\ Destination(jobs[j]) \in DOMAIN fs

\* the stage job j has reached: 0 pending, 1 directory-ready, 2 executed (the
\* switch on the type has been left), 3 sized, 4 recorded
Stage(j) ==
    CASE Recorded(j) -> 4
      [] ~Recorded(j) /\ Issued(j, "GetFileSize") -> 3
      [] ~Recorded(j) /\ ~Issued(j, "GetFileSize") /\ IssuedOk(j, "mkdirall")
           /\ j = idx /\ pc \in {"returned", "record"} -> 2
      [] ~Recorded(j) /\ ~Issued(j, "GetFileSize") /\ IssuedOk(j, "mkdirall")
           /\ ~(j = idx /\ pc \in {"returned", "record"}) -> 1
      [] OTHER -> 0

\* how often op has been issued for job j
TimesIssued(j, ops) ==
    Cardinality({k \in 1..Len(calls) : calls[k].job = j /\ calls[k].op \in ops})

\* a step moves no job backwards, and moves a job by more than one stage only
\* to recorded, with a failure detail
StageStep ==
    \A j \in 1..Len(jobs) :
      /\ Stage(j)' >= Stage(j)
      /\ Stage(j)' > Stage(j) + 1 =>
           /\ Stage(j)' = 4
           /\ results'[j].Error # Nil
           /\ ~results'[j].Success

\* C14: every job moves only forward through pending, directory-ready,
\* executed, sized, recorded, or from an earlier stage straight to recorded
\* with a failure detail; when every external call returns every job is
\* eventually recorded; no job's backup operation or size measurement is
\* invoked more than once.
C14_ForwardOnly ==
    /\ [][StageStep]_vars
    /\ [](\A j \in 1..Len(jobs) :
            /\ TimesIssued(j, {"mkdirall"}) <= 1
            /\ TimesIssued(j, {"BackupPostgres", "BackupMySQL", "BackupMariaDB",
                               "BackupMongoDB"}) <= 1
            /\ TimesIssued(j, {"GetFileSize"}) <= 1)
    /\ <>[](pc = "done" /\ \A j \in 1..Len(jobs) : Stage(j) = 4)

\* C14 witness: the batch is over and its job went through every stage: its
\* directory was created, its backup operation and its size measurement were
\* each invoked once, and it is recorded.
C14_Witness ==
    /\ pc = "done"
    /\ Len(jobs) = 1
    /\ Stage(1) = 4
    /\ DatabaseTypeIsValid(jobs[1].Type)
    /\ TimesIssued(1, {"mkdirall"}) = 1
    /\ TimesIssued(1, {"BackupPostgres", "BackupMySQL", "BackupMariaDB",
                       "BackupMongoDB"}) = 1
    /\ TimesIssued(1, {"GetFileSize"}) = 1

\* text t occurs in text s
Contains(s, t) ==
    \E i \in 1..(Len(s) - Len(t) + 1) : SubSeq(s, i, i + Len(t) - 1) = t

\* C15: for a mongodb job under docker-exec whose remote export exits
\* non-zero, the recorded result has Success = FALSE, BackupPath
\* backup/mongodb/{timestamp} and a detail containing 'failed to create
\* backup'; the job issues no local directory creation and no copy for the
\* destination, and nothing at or below the destination is of its making.
C15_RemoteExportFailure ==
    \A j \in 1..Len(jobs) :
      (/\ jobs[j].Type = DatabaseTypeMongoDB
       /\ config.Method = BackupMethodDockerExec
       /\ IssuedFailed(j, "create")) =>
        /\ ~Issued(j, "mkdir")
        /\ ~Issued(j, "copy")
        /\ ~Issued(j, "GetFileSize")
        /\ \A p \in DOMAIN fs :
             (Len(p) >= 3 /\ SubSeq(p, 1, 3) = Destination(jobs[j])) => fs[p].job # j
        /\ Recorded(j) =>
             /\ ~results[j].Success
             /\ PathString(results[j].BackupPath) =
                  "backup/mongodb/" \o StampText(config.Timestamp)
             /\ Contains(results[j].Error, "failed to create backup")

\* C15 witness: a batch of one mongodb job under docker-exec whose remote
\* export failed; the job is recorded and the destination does not exist.
C15_Witness ==
    /\ Len(jobs) = 1
    /\ Len(results) = 1
    /\ jobs[1].Type = DatabaseTypeMongoDB
    /\ config.Method = BackupMethodDockerExec
    /\ IssuedFailed(1, "create")
    /\ Destination(jobs[1]) \notin DOMAIN fs
    /\ <<"backup", "mongodb">> \in DOMAIN fs

\* no entry of the filesystem is removed, and one written by a run of the
\* batch that started at another instant is left as it is
KeepsEarlierArtifacts ==
    \A p \in DOMAIN fs :
      /\ p \in DOMAIN fs'
      /\ fs[p].stamp # config'.Timestamp => fs'[p] = fs[p]

\* C16 as stated: when the same batch is run twice with two different
\* timestamps, no step of the second run overwrites or deletes an artifact of
\* the first, and the directory creations leave what exists alone.
C16_RunsDoNotCollide == [][KeepsEarlierArtifacts]_vars

\* no entry of the filesystem is removed, and one written by a run of the
\* batch whose timestamp reads otherwise as YYYY-MM-DD_HH-MM-SS is left as it is
KeepsArtifactsOfOtherSeconds ==
    \A p \in DOMAIN fs :
      /\ p \in DOMAIN fs'
      /\ StampText(fs[p].stamp) # StampText(config'.Timestamp) => fs'[p] = fs[p]

\* C16 amended: when the same batch is run twice with two timestamps that
\* differ in their rendering to the second, no step of the second run
\* overwrites or deletes an artifact of the first, and the directory creations
\* leave what exists alone.
C16_RunsOfOtherSecondsDoNotCollide == [][KeepsArtifactsOfOtherSeconds]_vars

\* C16 witness: the second run started a second after the first and is over;
\* the working directory holds a dump file of the first run and a dump file
\* of the second.
C16_Witness ==
    /\ pc = "done"
    /\ config.Timestamp.second = 1
    /\ \E p, q \in DOMAIN fs :
         /\ fs[p].kind = "file"
         /\ fs[p].stamp \in Timestamps
         /\ fs[q].kind = "file"
         /\ fs[q].stamp = config.Timestamp

\* C17: execution is strictly sequential. Every call of the log was made for
\* a job whose predecessors were all recorded by then, the calls of a job are
\* contiguous in the log and the jobs follow one another in the order of the
\* batch; every process of the log has exited before the next call is made
\* (cmd.Run and cmd.Output wait for the process).
C17_StrictlySequential ==
    /\ \A k \in 1..Len(calls) : calls[k].job <= Len(results) + 1
    /\ \A k \in 1..Len(calls) : calls[k].job = idx => pc # "loop"
    /\ \A k \in 1..(Len(calls) - 1) : calls[k].job <= calls[k + 1].job

\* C17 witness: both jobs of a batch spawned processes; the second job's were
\* spawned with the first job recorded.
C17_Witness ==
    /\ Len(jobs) = 2
    /\ Len(results) = 1
    /\ Spawned(1)
    /\ Spawned(2)
    /\ idx = 2

\* the job the loop is at is a postgres, mysql or mariadb job under one of the
\* three methods, and its backup operation has just returned
DumpReturned ==
    /\ pc = "returned"
    /\ dbConfig.Type \in {DatabaseTypePostgres, DatabaseTypeMySQL, DatabaseTypeMariaDB}
    /\ BackupMethodIsValid(config.Method)

\* the logged call op of job j
CallOf(j, op) ==
    calls[CHOOSE k \in 1..Len(calls) : calls[k].job = j /\ calls[k].op = op]

\* the dump process of the current job exited non-zero or did not start: the
\* operation returns the method's error, no write is attempted and nothing at
\* the destination is of this job's making
FailedDumpLeavesNoFile ==
    IssuedFailed(idx, "dump") =>
      /\ err = DumpError(config.Method)
      /\ ~Issued(idx, "writefile")
      /\ Destination(dbConfig) \in DOMAIN fs =>
           fs[Destination(dbConfig)].job # idx

\* C18 as stated: for postgres, mysql and mariadb under every method the exit
\* status of the dump process decides the result: on a non-zero exit the
\* operation returns an error and the destination file is neither created nor
\* modified; on a zero exit the operation succeeds and the destination file
\* holds the captured stdout, whatever its length.
C18_ExitStatusDecides ==
    DumpReturned =>
      /\ Issued(idx, "dump")
      /\ FailedDumpLeavesNoFile
      /\ IssuedOk(idx, "dump") =>
           /\ err = Nil
           /\ Destination(dbConfig) \in DOMAIN fs
           /\ fs[Destination(dbConfig)] =
                [kind |-> "file", data |-> CallOf(idx, "dump").out,
                 stamp |-> config.Timestamp, job |-> idx]

\* C18 amended: on a non-zero exit the operation returns an error and the
\* destination file is neither created nor modified; on a zero exit the
\* captured stdout, whatever its length, is handed to os.WriteFile for the
\* destination, and the operation returns what that write returns: when the
\* write succeeds the file holds the stdout and the operation succeeds, when
\* it fails the operation returns the write's error.
C18_ExitStatusThenWrite ==
    DumpReturned =>
      /\ Issued(idx, "dump")
      /\ FailedDumpLeavesNoFile
      /\ IssuedOk(idx, "dump") =>
           /\ Issued(idx, "writefile")
           /\ CallOf(idx, "writefile").argv =
                <<"os.WriteFile", DestinationText(dbConfig, config.Timestamp)>>
           /\ CallOf(idx, "writefile").out = CallOf(idx, "dump").out
           /\ CallOf(idx, "dump").out = dumps[dbConfig.Database]
           /\ IF IssuedOk(idx, "writefile")
                THEN /\ err = Nil
                     /\ Destination(dbConfig) \in DOMAIN fs
                     /\ fs[Destination(dbConfig)] =
                          [kind |-> "file", data |-> CallOf(idx, "dump").out,
                           stamp |-> config.Timestamp, job |-> idx]
                ELSE err \notin {Nil, DumpError(config.Method)}

\* C18 witness: a dump exited with status 0 having printed nothing, and the
\* destination is an empty file.
C18_Witness ==
    /\ DumpReturned
    /\ IssuedOk(idx, "dump")
    /\ CallOf(idx, "dump").out = ""
    /\ err = Nil
    /\ Destination(dbConfig) \in DOMAIN fs
    /\ fs[Destination(dbConfig)].kind = "file"
    /\ fs[Destination(dbConfig)].data = ""

\* the command the code builds for call op of a job with configuration c
CommandOf(op, c) ==
    CASE op = "dump" /\ c.Type = DatabaseTypePostgres ->
           PostgresArgv(c, config.Method, config.K8sNamespace)
      [] op = "dump" /\ c.Type = DatabaseTypeMySQL ->
           MySQLArgv(c, config.Method, config.K8sNamespace)
      [] op = "dump" /\ c.Type = DatabaseTypeMariaDB ->
           MariaDBArgv(c, config.Method, config.K8sNamespace)
      [] op = "dump" /\ c.Type = DatabaseTypeMongoDB ->
           MongoRunArgv(c, Destination(c))
      [] op = "create" ->
           MongoCreateArgv(c, config.Method, config.K8sNamespace, config.TempDir,
                           Destination(c))
      [] op = "copy" ->
           MongoCopyArgv(c, config.Method, config.K8sNamespace, config.TempDir,
                         Destination(c))
      [] op = "cleanup" ->
           MongoCleanupArgv(c, config.Method, config.K8sNamespace, config.TempDir,
                            Destination(c))

\* configuration c with the identifiers the method does not use set to v
WithUnused(c, v) ==
    CASE config.Method = BackupMethodDockerExec -> [c EXCEPT !.Pod = v]
      [] config.Method = BackupMethodKubectlExec -> [c EXCEPT !.Container = v]
      [] OTHER -> [c EXCEPT !.Container = v, !.Pod = v]

\* the backup commands of the log: every process but du
BackupCommands ==
    {k \in 1..Len(calls) : calls[k].kind = "exec" /\ calls[k].op # "du"}

\* C19: whenever a backup command is executed under docker-exec the job's
\* container name is non-empty and is the container the command addresses;
\* under kubectl-exec the job's pod name is non-empty and is the pod the
\* command addresses; the identifier of the method not in use is not read:
\* the command is the same whatever that identifier is.
C19_TargetIdentifier ==
    \A k \in BackupCommands :
      LET c == jobs[calls[k].job]
      IN  /\ config.Method = BackupMethodDockerExec =>
               /\ c.Container # ""
               /\ calls[k].op # "copy" => calls[k].argv[3] = c.Container
          /\ config.Method = BackupMethodKubectlExec =>
               /\ c.Pod # ""
               /\ calls[k].op # "copy" => calls[k].argv[5] = c.Pod
          /\ \A v \in {"", "other"} :
               calls[k].argv = CommandOf(calls[k].op, WithUnused(c, v))

\* C19 witness: a dump has been executed under docker-exec in the container
\* of the default name, the answer at the prompt having been blank, and the
\* job's pod name is empty.
C19_Witness ==
    /\ config.Method = BackupMethodDockerExec
    /\ Len(jobs) = 1
    /\ jobs[1].Type = DatabaseTypePostgres
    /\ jobs[1].Container = "test-postgres"
    /\ jobs[1].Pod = ""
    /\ IssuedOk(1, "dump")

\* the invocation of the dump or export utility for configuration c with host
\* h, as it stands in the command: words of the argument vector under
\* docker-run for postgres and for mongodb, otherwise one shell command
UtilityInvocation(c, method, h) ==
    CASE c.Type = DatabaseTypePostgres /\ method = BackupMethodDockerRun ->
           <<"pg_dump", "-h", h, "-U", c.User, c.Database>>
      [] c.Type = DatabaseTypePostgres /\ method # BackupMethodDockerRun ->
           <<"PGPASSWORD='" \o c.Password \o "' pg_dump -h " \o h \o " -U " \o
             c.User \o " " \o c.Database>>
      [] c.Type \in {DatabaseTypeMySQL, DatabaseTypeMariaDB}
           /\ method = BackupMethodDockerRun ->
           <<"mysqldump -h" \o h \o " -u" \o c.User \o " -p" \o c.Password \o
             " " \o c.Database>>
      [] c.Type \in {DatabaseTypeMySQL, DatabaseTypeMariaDB}
           /\ method # BackupMethodDockerRun ->
           <<"mysqldump -h " \o h \o " -u" \o c.User \o " -p" \o c.Password \o
             " " \o c.Database>>
      [] c.Type = DatabaseTypeMongoDB ->
           <<"mongodump", "--host", h, "--db", c.Database, "--out">>

\* the words ws stand in a row in the argument vector argv
HasWords(argv, ws) ==
    \E i \in 1..(Len(argv) - Len(ws) + 1) : SubSeq(argv, i, i + Len(ws) - 1) = ws

\* the calls that run the dump or export utility
UtilityCalls ==
    {k \in 1..Len(calls) : calls[k].kind = "exec" /\ calls[k].op \in {"dump", "create"}}

\* C20 as stated: for every database type and every method the dump or
\* export utility is invoked with the host of the job's connection parameters
\* (config.Host), and with the configured user and database name where the
\* type uses them.
C20_HostFromConfig ==
    \A k \in UtilityCalls :
      LET c == jobs[calls[k].job]
      IN  HasWords(calls[k].argv, UtilityInvocation(c, config.Method, c.Host))

\* the host the utility is given: the configured one under docker-run, the
\* exec target's own under docker-exec and kubectl-exec
HostOf(c, method) ==
    IF method = BackupMethodDockerRun THEN c.Host ELSE "localhost"

\* C20 amended: for every database type the dump or export utility is invoked
\* with the host of the job's connection parameters under docker-run and with
\* the host localhost under docker-exec and kubectl-exec, and for every method
\* with the configured user and database name where the type uses them.
C20_HostByMethod ==
    \A k \in UtilityCalls :
      LET c == jobs[calls[k].job]
      IN  HasWords(calls[k].argv,
                   UtilityInvocation(c, config.Method, HostOf(c, config.Method)))

\* C20 witness: mysqldump has been run in a pod for a job whose configured
\* host is not localhost.
C20_Witness ==
    /\ config.Method = BackupMethodKubectlExec
    /\ Len(jobs) = 1
    /\ jobs[1].Type = DatabaseTypeMySQL
    /\ jobs[1].Host = "mysql"
    /\ jobs[1].User = "root"
    /\ IssuedOk(1, "dump")

\* the command the code builds for call op of a job with configuration c when
\* the batch's namespace is ns
CommandUnder(op, c, ns) ==
    CASE op = "dump" /\ c.Type = DatabaseTypePostgres ->
           PostgresArgv(c, config.Method, ns)
      [] op = "dump" /\ c.Type = DatabaseTypeMySQL -> MySQLArgv(c, config.Method, ns)
      [] op = "dump" /\ c.Type = DatabaseTypeMariaDB -> MariaDBArgv(c, config.Method, ns)
      [] op = "dump" /\ c.Type = DatabaseTypeMongoDB -> MongoRunArgv(c, Destination(c))
      [] op = "create" ->
           MongoCreateArgv(c, config.Method, ns, config.TempDir, Destination(c))
      [] op = "copy" ->
           MongoCopyArgv(c, config.Method, ns, config.TempDir, Destination(c))
      [] op = "cleanup" ->
           MongoCleanupArgv(c, config.Method, ns, config.TempDir, Destination(c))

\* the namespace is not named by any word of the log, by any exec target or
\* by any recorded result
NamespaceLeavesNoTrace ==
    /\ \A k \in 1..Len(calls) : \A i \in 1..Len(calls[k].argv) :
         ~Contains(calls[k].argv[i], config.K8sNamespace)
    /\ \A t \in remote : ~Contains(t[1], config.K8sNamespace)
    /\ \A j \in 1..Len(results) :
         /\ ~Contains(results[j].Error, config.K8sNamespace)
         /\ ~Contains(PathString(results[j].BackupPath), config.K8sNamespace)

\* C21: the cluster namespace influences only kubectl-exec jobs. Under
\* docker-run and docker-exec every external command is the one the code
\* builds under any other namespace, and neither the commands, the targets
\* nor the results carry the namespace; under kubectl-exec the namespace of
\* the batch is the one named by the exec, the copy and the cleanup command of
\* every job.
C21_NamespaceOnlyForKubectl ==
    /\ config.Method \in {BackupMethodDockerRun, BackupMethodDockerExec} =>
         /\ \A k \in BackupCommands : \A ns \in TwoNamespaces :
              calls[k].argv = CommandUnder(calls[k].op, jobs[calls[k].job], ns)
         /\ NamespaceLeavesNoTrace
    /\ config.Method = BackupMethodKubectlExec =>
         \A k \in BackupCommands :
           LET c == jobs[calls[k].job]
           IN  IF calls[k].op = "copy"
                 THEN /\ calls[k].argv[2] = "cp"
                      /\ SubSeq(calls[k].argv[3], 1,
                                Len(config.K8sNamespace) + Len(c.Pod) + 2) =
                           config.K8sNamespace \o "/" \o c.Pod \o ":"
                 ELSE HasWords(calls[k].argv,
                               <<"kubectl", "exec", "-n", config.K8sNamespace, c.Pod>>)

\* C21 witness: under kubectl-exec in the namespace staging a mongodb job has
\* run its create, copy and cleanup commands.
C21_Witness ==
    /\ config.Method = BackupMethodKubectlExec
    /\ config.K8sNamespace = "staging"
    /\ Len(jobs) = 1
    /\ jobs[1].Type = DatabaseTypeMongoDB
    /\ IssuedOk(1, "create")
    /\ IssuedOk(1, "copy")
    /\ Issued(1, "cleanup")

\* the positions of text s that hold no white space
Inked(s) == {i \in 1..Len(s) : SubSeq(s, i, i) \notin {" ", "\t", "\n"}}

\* the first whitespace-separated token of a text that has one
FirstToken(s) ==
    LET a == CHOOSE i \in Inked(s) : \A h \in Inked(s) : i <= h
        b == CHOOSE j \in a..Len(s) :
               /\ \A i \in a..j : i \in Inked(s)
               /\ j + 1 \notin Inked(s)
    IN  SubSeq(s, a, b)

\* the size measurements of the log: the positions of the GetFileSize calls,
\* each followed by its du process
Measurements ==
    {k \in 1..(Len(calls) - 1) : calls[k].op = "GetFileSize" /\ calls[k + 1].op = "du"}

\* C22: GetFileSize returns the first whitespace-separated token of du's
\* output; when du succeeds and prints no token it returns "unknown" and no
\* error, and the job is recorded as a success of size "unknown"; it returns
\* an error exactly when du fails.
C22_FirstTokenOrUnknown ==
    /\ \A k \in 1..Len(calls) : calls[k].op = "GetFileSize" => k \in Measurements
    /\ \A k \in Measurements :
         LET du == calls[k + 1]
         IN  /\ calls[k].ok = du.ok
             /\ ~du.ok => calls[k].out = ""
             /\ (du.ok /\ Inked(du.out) # {}) => calls[k].out = FirstToken(du.out)
             /\ (du.ok /\ Inked(du.out) = {}) =>
                  /\ calls[k].out = "unknown"
                  /\ Recorded(calls[k].job) =>
                       /\ results[calls[k].job].Success
                       /\ results[calls[k].job].Size = "unknown"
                       /\ results[calls[k].job].Error = Nil
    /\ GetFileSize(TRUE, <<" ", "\n">>) = [size |-> "unknown", err |-> Nil]
    /\ GetFileSize(TRUE, <<" ", "1", "2", "M", "\t", "a", " ", "b", "\n">>) =
         [size |-> "12M", err |-> Nil]

\* C22 witness: du exited with status 0 having printed nothing, and the job
\* is recorded as a success of size "unknown".
C22_Witness ==
    /\ Len(results) = 1
    /\ \E k \in Measurements : calls[k + 1].ok /\ calls[k + 1].out = ""
    /\ results[1].Success
    /\ results[1].Size = "unknown"

----------------------------------------------------------------------------
(* The interactive run *)

\* what the session printed: text a is printed, and a is printed before b
Printed(a) == \E i \in 1..Len(session.out) : session.out[i] = a

PrintedBefore(a, b) ==
    \E i, j \in 1..Len(session.out) :
        i < j /\ session.out[i] = a /\ session.out[j] = b

\* C23: under kubectl-exec the namespace is prompted after the method choice
\* and before the database selection prompt, as the README session shows; under
\* the other methods the namespace is never prompted and is "default".
C23_NamespaceBeforeDatabases ==
    /\ (session.method = BackupMethodKubectlExec /\ Printed("Select databases to backup:"))
         => PrintedBefore("Kubernetes Namespace", "Select databases to backup:")
    /\ (session.method \in {BackupMethodDockerRun, BackupMethodDockerExec})
         => /\ ~Printed("Kubernetes Namespace")
            /\ Printed("Configuration Summary") => config.K8sNamespace = "default"

\* what the code does instead: the database selection is printed first; and
\* on the README session the namespace typed is read as the database choices
C23_CodeOrder ==
    /\ ~PrintedBefore("Kubernetes Namespace", "Select databases to backup:")
    /\ (session.stdin = Tail(Tail(ReadmeSession)) /\ session.pc = "returned")
         => session.ret = "failed to select databases: no databases selected"
    /\ (session.method \in {BackupMethodDockerRun, BackupMethodDockerExec})
         => /\ ~Printed("Kubernetes Namespace")
            /\ Printed("Configuration Summary") => config.K8sNamespace = "default"

\* the README session has been typed to the code: it ended at the database prompt
C23_ReadmeSessionFails ==
    /\ session.stdin = Tail(Tail(ReadmeSession))
    /\ session.pc = "returned"
    /\ session.ret = "failed to select databases: no databases selected"
    /\ calls = <<>>

\* the answers that confirm, as typed
YesAnswers ==
    {"y", "Y"} \cup {a \o b \o c : a \in {"y", "Y"}, b \in {"e", "E"}, c \in {"s", "S"}}

\* the line typed last among the lines read so far
LastLineRead == session.typed[Len(session.typed) - Len(session.stdin)]

\* the texts printed up to the confirmation, in the order of the steps
PromptsInOrder ==
    /\ session.out[1] = "Interactive Database Backup Tool"
    /\ session.out[2] = "Select backup method:"
    /\ session.out[3] = "Select databases to backup:"
    /\ PrintedBefore("Select databases to backup:", "Configuration Summary")
    /\ \A i \in 1..Len(session.dbTypes) :
         PrintedBefore("Configuring " \o session.dbTypes[i], "Configuration Summary")
    /\ session.method = BackupMethodKubectlExec
         => PrintedBefore("Kubernetes Namespace", "Configuring " \o session.dbTypes[1])
    /\ PrintedBefore("Configuration Summary", "Proceed with backup?")

\* C27: backup operations are invoked only after the method, the databases,
\* the namespace (kubectl-exec only), every database configuration and the
\* confirmation have returned without error and yes was answered; when the
\* answer is not yes there is no backup and no final summary and nil is
\* returned; when an earlier step fails its error is returned wrapped and there
\* is no backup.
C27_BackupsOnlyAfterConfirmation ==
    /\ (pc # "notcalled" \/ calls # <<>>)
         => /\ session.pc \in {"execute", "returned"}
            /\ session.method \in SelectableMethods
            /\ Len(session.dbTypes) > 0
            /\ Len(session.dbConfigs) = Len(session.dbTypes)
            /\ config.Method = session.method
            /\ config.Databases = session.dbConfigs
            /\ PromptsInOrder
            /\ Len(session.typed) > Len(session.stdin)
            /\ StringOf(TrimSpace(LastLineRead)) \in YesAnswers
            /\ ~Printed("Backup cancelled by user")
    /\ Printed("Backup cancelled by user")
         => /\ pc = "notcalled" /\ calls = <<>> /\ results = <<>>
            /\ ~Printed("Backup Process Completed")
            /\ session.pc = "returned" /\ session.ret = Nil
    /\ (session.pc = "returned" /\ session.ret # Nil)
         => /\ session.ret = "failed to select databases: no databases selected"
            /\ pc = "notcalled" /\ calls = <<>> /\ results = <<>>
            /\ ~Printed("Backup Process Completed")
    /\ Printed("Backup Process Completed")
         => pc = "done" /\ session.ret = Nil /\ Len(results) = Len(session.dbConfigs)

\* C27 witness: under kubectl-exec, with the namespace typed and yes answered,
\* the batch ran and the final summary was printed.
C27_Witness ==
    /\ session.pc = "returned"
    /\ session.method = BackupMethodKubectlExec
    /\ config.K8sNamespace = "staging"
    /\ Printed("Backup Process Completed")
    /\ Len(results) = 1
    /\ calls # <<>>

\* SelectBackupMethod has returned
MethodSelected == session.pc \notin {"start", "method"}

\* C28: SelectBackupMethod terminates on every input stream, the streams that
\* end before a line equal to 1, 2 or 3 included, and the method it returns
\* is a valid BackupMethod.
C28_SelectBackupMethodTerminates ==
    /\ <>MethodSelected
    /\ [](MethodSelected => BackupMethodIsValid(session.method))

\* what holds of the code: the method returned is the valid method the last
\* line read names
C28_ReturnedMethodIsValid ==
    MethodSelected => /\ BackupMethodIsValid(session.method)
                      /\ session.pc = "databases" => session.method = MethodOf(session.input)

\* the type a typed choice stands for, "" for the choices that stand for none
TypeOfChoice(t) ==
    CASE t = "1" -> DatabaseTypePostgres
      [] t = "2" -> DatabaseTypeMySQL
      [] t = "3" -> DatabaseTypeMariaDB
      [] t \in {"4", " 4 "} -> DatabaseTypeMongoDB
      [] OTHER -> ""

\* the types the choices d stand for, in the order typed
TypesOfChoices(d) ==
    LET kept == SelectSeq(d, LAMBDA t : TypeOfChoice(t) # "")
    IN  [i \in 1..Len(kept) |-> TypeOfChoice(kept[i])]

\* SelectDatabases has returned and no later prompt has read a line
SelectDatabasesReturned ==
    /\ Printed("Select databases to backup:")
    /\ \/ session.pc = "namespace"
       \/ session.pc = "configure" /\ session.dbConfigs = <<>>
                                   /\ session.method # BackupMethodKubectlExec
       \/ session.pc = "returned" /\ ~Printed("Configuration Summary")

SelectDatabasesFailed ==
    session.pc = "returned" /\ session.ret = "failed to select databases: no databases selected"

\* C29: SelectDatabases returns valid types only; input "5" gives postgres,
\* mysql, mariadb, mongodb; otherwise every choice 1..4 gives its type, in the
\* order typed and as often as typed, and every other choice (a "5" in a list
\* too) is dropped; the error 'no databases selected' is returned exactly when
\* no choice gives a type.
C29_SelectDatabases ==
    SelectDatabasesReturned =>
      /\ \A i \in 1..Len(session.dbTypes) : DatabaseTypeIsValid(session.dbTypes[i])
      /\ session.input = <<>> => SelectDatabasesFailed
      /\ session.input # <<>> => \E d \in ChoiceSeqs : session.input = Line(JoinComma(d))
      /\ \A d \in ChoiceSeqs :
           session.input = Line(JoinComma(d)) =>
             IF d = <<"5">>
               THEN /\ ~SelectDatabasesFailed
                    /\ session.dbTypes = <<DatabaseTypePostgres, DatabaseTypeMySQL,
                                           DatabaseTypeMariaDB, DatabaseTypeMongoDB>>
               ELSE /\ SelectDatabasesFailed <=> TypesOfChoices(d) = <<>>
                    /\ session.dbTypes = TypesOfChoices(d)

\* C29 witness: "5,1" was typed, the 5 was dropped and postgres selected.
C29_Witness ==
    /\ SelectDatabasesReturned
    /\ session.input = Line("5,1")
    /\ session.dbTypes = <<DatabaseTypePostgres>>
    /\ ~SelectDatabasesFailed

----------------------------------------------------------------------------
(* Empty artifacts *)

\* job j is a dump to a file whose process exited with status 0 and printed
\* nothing: its artifact is a file of length zero
EmptyArtifact(j) ==
    /\ jobs[j].Type \in {DatabaseTypePostgres, DatabaseTypeMySQL, DatabaseTypeMariaDB}
    /\ IssuedOk(j, "dump")
    /\ CallOf(j, "dump").out = ""
    /\ IssuedOk(j, "writefile")
    /\ Destination(jobs[j]) \in DOMAIN fs
    /\ fs[Destination(jobs[j])].data = ""

\* C25: a job whose dump command exits with status 0 and leaves an artifact of
\* length zero is not recorded as a success: the artifact is checked to be
\* non-empty before Success is set.
C25_EmptyArtifactIsNoSuccess ==
    \A j \in 1..Len(results) : EmptyArtifact(j) => ~results[j].Success

\* what the code does: such a job is a success whenever du succeeds
C25_EmptyArtifactSucceeds ==
    \A j \in 1..Len(results) :
        EmptyArtifact(j) => (results[j].Success <=> IssuedOk(j, "du"))

----------------------------------------------------------------------------
(* The destinations of one batch *)

\* C26: within one batch no two jobs have the same destination path, and the
\* artifact an earlier job wrote is not written again by a later job of the
\* batch, for every list of jobs the prompts can produce (a type chosen twice
\* and several mongodb databases included).
C26_DistinctDestinations ==
    pc # "notcalled" =>
      \A i, j \in 1..Len(jobs) :
          i < j =>
            /\ Destination(jobs[i]) # Destination(jobs[j])
            /\ (IssuedOk(i, "writefile") /\ Destination(jobs[i]) \in DOMAIN fs)
                 => fs[Destination(jobs[i])].job = i

\* what the code does: two jobs have the same destination exactly when they
\* are of the same type and are mongodb jobs or have the same database name
C26_DestinationsByTypeAndName ==
    pc # "notcalled" =>
      \A i, j \in 1..Len(jobs) :
          (Destination(jobs[i]) = Destination(jobs[j])) <=>
             /\ jobs[i].Type = jobs[j].Type
             /\ jobs[i].Type = DatabaseTypeMongoDB \/ jobs[i].Database = jobs[j].Database

\* the first job's dump file was overwritten by the second job, and both jobs
\* are recorded as successes with the same path
C26_Overwritten ==
    /\ Len(results) = 2
    /\ jobs[1].Type = DatabaseTypePostgres
    /\ results[1].Success /\ results[2].Success
    /\ results[1].BackupPath = results[2].BackupPath
    /\ fs[Destination(jobs[1])].job = 2

----------------------------------------------------------------------------
(* The remote paths of the mongodb exec protocols *)

\* the last n words of a command
LastWords(argv, n) == SubSeq(argv, Len(argv) - n + 1, Len(argv))

\* {tempDir}/{T} for the timestamp t of a batch
RemoteDirOf(t) == "/tmp/db-backups/" \o StampText(t)

\* the remote directories the step removed
Removed(before, after) == {e[2] : e \in before \ after}

\* the call made last, if it is a call of the mongodb exec protocols, names
\* {tempDir}/{T}, T the last element of the local destination
RemotePathsOfLastCall ==
    \A k \in {Len(calls)} \ {0} :
        LET c == jobs[calls[k].job]
            argv == calls[k].argv
            dir == RemoteDirOf(config.Timestamp)
        IN  /\ calls[k].op \in {"create", "copy", "cleanup"} =>
                 StampText(config.Timestamp) = Destination(c)[Len(Destination(c))]
            /\ calls[k].op = "create" => LastWords(argv, 2) = <<"--out", dir>>
            /\ calls[k].op = "copy" =>
                 /\ argv[3] = ExecTarget(c, config.Method, config.K8sNamespace) \o ":" \o
                                dir \o "/" \o c.Database
                 /\ argv[4] = "backup/mongodb/" \o StampText(config.Timestamp) \o "/"
            /\ calls[k].op = "cleanup" => LastWords(argv, 3) = <<"rm", "-rf", dir>>

\* C30: in the mongodb exec protocols the create step writes to {tempDir}/{T},
\* the copy step reads {tempDir}/{T}/{database} and the cleanup step removes
\* {tempDir}/{T}, T being the last element of the local destination (the
\* timestamp of the batch); no step removes another remote directory: not
\* tempDir, and not the directory a run with another timestamp created.
C30_RemotePathsConsistent ==
    [][/\ RemotePathsOfLastCall'
       /\ Removed(remote, remote') \subseteq {RemoteDirOf(config.Timestamp)}]_vars

\* C30 witness: the second run, a second after the first, has removed its own
\* remote directory, and the directory the first run left behind is still there.
C30_Witness ==
    /\ pc = "done"
    /\ config.Timestamp.second = 1
    /\ IssuedOk(1, "create")
    /\ IssuedOk(1, "copy")
    /\ IssuedOk(1, "cleanup")
    /\ {e[2] : e \in remote} = {"/tmp/db-backups/2024-01-05_09-30-00"}

----------------------------------------------------------------------------
(* backup-all-flexible.sh *)

\* the databases .env configures (host and database name set), in the order
\* of Run Backups
ConfiguredInOrder ==
    SelectSeq(<<DatabaseTypePostgres, DatabaseTypeMySQL, DatabaseTypeMariaDB,
                DatabaseTypeMongoDB>>,
              LAMBDA t : script.env.settings[t] = "set")

\* the script has ended after Run Backups began
ScriptEnded ==
    \/ script.pc = "done"
    \/ script.pc = "exited" /\ script.attempted # <<>>

\* C24: backup-all-flexible.sh attempts a backup of every configured database,
\* in the order postgres, mysql, mariadb, mongodb, skipping only those whose
\* host or database name is unset; a failure while backing up one database
\* does not keep the later configured databases from being attempted.
C24_EveryConfiguredAttempted ==
    ScriptEnded => script.attempted = ConfiguredInOrder

\* what the script does: it attempts the configured databases in order up to
\* the first one that fails, and all of them when none fails
C24_AttemptedUpToFirstFailure ==
    /\ \E n \in 0..Len(ConfiguredInOrder) :
         script.attempted = SubSeq(ConfiguredInOrder, 1, n)
    /\ script.pc = "done" => script.attempted = ConfiguredInOrder
    /\ (script.pc = "exited" /\ script.attempted # <<>>) => script.status = 1

\* postgres and mysql are configured, the postgres dump failed and the script
\* ended without attempting mysql
C24_LaterDatabaseNotAttempted ==
    /\ script.pc = "exited"
    /\ script.env.settings[DatabaseTypePostgres] = "set"
    /\ script.env.settings[DatabaseTypeMySQL] = "set"
    /\ script.ran = <<<<"mkdir -p">>, <<DatabaseTypePostgres, "dump">>>>
    /\ script.attempted = <<DatabaseTypePostgres>>

====
